---- MODULE Spec2Model ----
(***************************************************************************)
(* Model of the telemetry agent's per-interface decision pipeline:         *)
(*   RollingWindow  (src/src/rolling_window.cpp)                           *)
(*   HysteresisFsm  (src/src/hysteresis_fsm.cpp)                           *)
(*   InterfaceTracker (src/src/interface_tracker.cpp)                      *)
(*   TelemetryAgent (src/src/telemetry_agent.cpp)                          *)
(*                                                                         *)
(* Numbers: the code computes scores and confidences as IEEE doubles in    *)
(* [0,1].  The model uses fixed point with unit ONE (1.0 = ONE); every     *)
(* threshold of the configurations used is a multiple of 1/ONE.            *)
(***************************************************************************)
EXTENDS Integers, Sequences, FiniteSets, TLC

\* ------------------------------------------------------------------------
\* Bounds of the model
\* ------------------------------------------------------------------------
\* largest timestamp handed to a standalone HysteresisFsm
MaxTs == 2
\* largest step between two consecutive ts_now values
MaxStep == 1
\* confirmation counts healthy_*_N / down_*_N range over 1..MaxN
MaxN == 2
\* min_dwell_sec ranges over {0, MaxDwell}
MaxDwell == 2
\* cap on the confirmation counters (the code's ints are unbounded in practice)
MaxCnt == 3
\* the number of ring slots of the windows driven call by call: a short
\* ring, so that sliding, ring-index collisions and too-old samples all
\* occur within a few seconds
ShortWindow == 3
\* timestamps handed to a standalone RollingWindow range over MinWinTs..MaxWinTs
MaxWinTs == 4
\* timestamps handed to a standalone InterfaceTracker range over 0..MaxTrackTs
MaxTrackTs == 3
\* number of calls made on a standalone InterfaceTracker
MaxCalls == 4
\* seconds of the host loop: t = 0..MaxSec-1
MaxSec == 4
\* largest number of samples in a set ingested in two orders
MaxSamples == 3
\* timestamps handed to a RollingWindow whose calls are recorded: -1..MaxHistTs
MaxHistTs == 3
\* number of calls made on a TelemetryAgent driven call by call
MaxAgentCalls == 4
\* number of calls made on each object constructed from an arbitrary
\* configuration
MaxCtorCalls == 1
\* seconds that bring a sample before the samples stop
MaxFeed == 3
\* seconds of silence (note_time only) that follow
MaxDrought == 14

\* ------------------------------------------------------------------------
\* Numeric stand-ins
\* ------------------------------------------------------------------------
\* fixed-point representation of the double 1.0
ONE == 1000
\* std::numeric_limits<int64_t>::min(): the "unset" timestamp, below every
\* timestamp the model uses
INT64_MIN == -1000000

\* smallest timestamp handed to a RollingWindow (negative on purpose)
MinWinTs == 0 - 2

\* the number of ring slots of the program (W = 45 s)
ReferenceWindow == 45

\* the value of a variable whose object a specification does not construct
Absent == <<>>

VARIABLES
  cfg,        \* AgentConfig {fsm, score}: fixed at construction
  fsm,        \* a standalone HysteresisFsm object
  fsm_call,   \* the most recent HysteresisFsm::update call: arguments,
              \* the object before the call and the FsmUpdate returned
  win,        \* a standalone RollingWindow object
  win_call,   \* the most recent RollingWindow call: operation, arguments,
              \* the object before the call and the value returned
  tr,         \* a standalone InterfaceTracker object
  tr_call,    \* the most recent InterfaceTracker call: operation and arguments
  agent,      \* a TelemetryAgent object
  host,       \* the host loop driving the agent: position in the second,
              \* the second, and the FSM of the interface when it began
  win_hist,   \* what the caller of the standalone RollingWindow has passed
              \* so far: the largest timestamp and, per timestamp, the metrics
              \* of the most recent accepted ingest
  reorder,    \* two RollingWindows fed the same set of samples in two orders
  agent_call, \* the most recent TelemetryAgent call, the agent before it, and
              \* the transitions that have happened and have been handed out
  scenario    \* a scenario run of the host loop on one interface: the
              \* scenario, the strategy, the second, the position in it and
              \* the TransitionEvents of the interface so far

vars == <<cfg, fsm, fsm_call, win, win_call, tr, tr_call, agent, host,
          win_hist, reorder, agent_call, scenario>>
fsmVars == <<fsm, fsm_call>>
winVars == <<win, win_call, win_hist>>
trVars == <<tr, tr_call>>
hostVars == <<agent, host, agent_call>>
reorderVars == <<reorder>>

\* RollingWindow::kWindow, the number of ring slots: the scenario runs use
\* the program's window, the specifications that drive the objects call by
\* call use the short ring
kWindow == IF scenario = Absent THEN ShortWindow ELSE ReferenceWindow

Status == {"Healthy", "Degraded", "Down"}

\* ------------------------------------------------------------------------
\* Configuration (inputs of the constructors)
\* ------------------------------------------------------------------------
\* FsmConfig: thresholds as set by the tests (0.72, 0.66, 0.35, 0.45); the
\* confirmation counts (one for the two upward transitions, one for the two
\* downward ones), the dwell and the force-down option vary.
FsmConfigs ==
  { [ healthy_enter |-> 720, healthy_exit |-> 660,
      down_enter |-> 350, down_exit |-> 450,
      healthy_enter_N |-> up, healthy_exit_N |-> dn,
      down_enter_N |-> dn, down_exit_N |-> up,
      min_dwell_sec |-> dwell,
      min_confidence_for_promotion |-> 500,
      force_down_if_confidence_below |-> force ] :
    up \in 1..MaxN, dn \in 1..MaxN, dwell \in {0, MaxDwell}, force \in {-ONE, 200} }

\* ScoreConfig with the reference normalisation points (in tenths of the
\* metric unit, as Metrics) and weights
ScoreConfigs ==
  [ ewma_alpha : {250}, useEwma : BOOLEAN,
    enable_downtrend_penalty : {FALSE}, downtrend_penalty : {50},
    w_tp : {300}, w_rtt : {300}, w_loss : {200}, w_jit : {200},
    tp_max_mbps : {2000}, rtt_min_ms : {100}, rtt_max_ms : {8000},
    loss_max_pct : {300}, jit_max_ms : {2000},
    enable_confidence_cap : {FALSE},
    cap_confidence_threshold : {500}, cap_max_score_when_low_conf : {600} ]

DefaultScore == CHOOSE s \in ScoreConfigs : ~s.useEwma

\* ------------------------------------------------------------------------
\* HysteresisFsm
\* ------------------------------------------------------------------------
\* std::max(0.0, std::min(1.0, x))
clamp01_(x) == IF x < 0 THEN 0 ELSE IF x > ONE THEN ONE ELSE x

\* HysteresisFsm::HysteresisFsm(cfg, initial): counters 0, no transition yet
NewFsm(initial) ==
  [ status_ |-> initial,
    last_transition_ts_ |-> INT64_MIN,
    cnt_below_healthy_exit_ |-> 0,
    cnt_above_healthy_enter_ |-> 0,
    cnt_below_down_enter_ |-> 0,
    cnt_above_down_exit_ |-> 0 ]

dwell_ok_off_by_one(f, ts_now) ==
  IF f.last_transition_ts_ = INT64_MIN THEN TRUE
  ELSE (ts_now - f.last_transition_ts_) + 1 >= cfg.fsm.min_dwell_sec

dwell_ok_(f, ts_now) ==
  IF f.last_transition_ts_ = INT64_MIN THEN TRUE
  ELSE (ts_now - f.last_transition_ts_) >= cfg.fsm.min_dwell_sec

reset_counters_keep_down_exit(f, s) ==
  [f EXCEPT !.cnt_below_healthy_exit_ = 0,
            !.cnt_above_healthy_enter_ = 0,
            !.cnt_below_down_enter_ = 0]

reset_counters_keep_down_enter(f, s) ==
  [f EXCEPT !.cnt_below_healthy_exit_ = 0,
            !.cnt_above_healthy_enter_ = 0,
            !.cnt_above_down_exit_ = 0]

reset_counters_for_state_(f, s) ==
  [f EXCEPT !.cnt_below_healthy_exit_ = 0,
            !.cnt_above_healthy_enter_ = 0,
            !.cnt_below_down_enter_ = 0,
            !.cnt_above_down_exit_ = 0]

\* FsmUpdate{status, transitioned, reason}; the reason text is kept as the
\* name of the guard that fired
FsmUpdate(status, transitioned, reason) ==
  [status |-> status, transitioned |-> transitioned, reason |-> reason]

transition_(f, ts_now, next, reason) ==
  LET g == reset_counters_for_state_(
             [f EXCEPT !.status_ = next, !.last_transition_ts_ = ts_now], next)
  IN [fsm |-> g, upd |-> FsmUpdate(g.status_, TRUE, reason)]

\* return FsmUpdate{status_, false, ""}
no_transition_(f) == [fsm |-> f, upd |-> FsmUpdate(f.status_, FALSE, "")]

force_down_never(confidence) == FALSE

\* the condition of the force-down block, on the clamped confidence
force_down_(confidence) ==
  /\ cfg.fsm.force_down_if_confidence_below >= 0
  /\ confidence < cfg.fsm.force_down_if_confidence_below

below_healthy_exit_inclusive(score) == score <= cfg.fsm.healthy_exit

\* the four evidence guards, on the clamped score and confidence
below_healthy_exit_(score) == score < cfg.fsm.healthy_exit

above_healthy_enter_no_gate(score, confidence) == score > cfg.fsm.healthy_enter

above_healthy_enter_(score, confidence) ==
  confidence >= cfg.fsm.min_confidence_for_promotion /\ score > cfg.fsm.healthy_enter

below_down_enter_(score) == score < cfg.fsm.down_enter

above_down_exit_(score) == score > cfg.fsm.down_exit

update_Healthy_reset_on_dwell(f, ts_now, score) ==
  LET g == [f EXCEPT !.cnt_below_healthy_exit_ =
                        IF below_healthy_exit_(score) THEN @ + 1 ELSE 0]
  IN IF g.cnt_below_healthy_exit_ >= cfg.fsm.healthy_exit_N
       THEN IF dwell_ok_(g, ts_now)
              THEN transition_(g, ts_now, "Degraded", "healthy_exit")
              ELSE no_transition_([g EXCEPT !.cnt_below_healthy_exit_ = 0])
       ELSE no_transition_(g)

update_Healthy_drops_to_down(f, ts_now, score) ==
  LET g == [f EXCEPT !.cnt_below_healthy_exit_ =
                        IF below_healthy_exit_(score) THEN @ + 1 ELSE 0]
  IN IF g.cnt_below_healthy_exit_ >= cfg.fsm.healthy_exit_N /\ dwell_ok_(g, ts_now)
       THEN IF below_down_enter_(score)
              THEN transition_(g, ts_now, "Down", "down_enter")
              ELSE transition_(g, ts_now, "Degraded", "healthy_exit")
       ELSE no_transition_(g)

\* case IfStatus::Healthy
update_Healthy_(f, ts_now, score) ==
  LET g == [f EXCEPT !.cnt_below_healthy_exit_ =
                        IF below_healthy_exit_(score) THEN @ + 1 ELSE 0]
  IN IF g.cnt_below_healthy_exit_ >= cfg.fsm.healthy_exit_N /\ dwell_ok_(g, ts_now)
       THEN transition_(g, ts_now, "Degraded", "healthy_exit")
       ELSE no_transition_(g)

down_fires_with_dwell(f, ts_now) ==
  f.cnt_below_down_enter_ >= cfg.fsm.down_enter_N /\ dwell_ok_(f, ts_now)

\* Degraded -> Down fires on the counter alone (no dwell check)
down_fires_(f, ts_now) == f.cnt_below_down_enter_ >= cfg.fsm.down_enter_N

update_Degraded_promote_first(f, ts_now, score, confidence) ==
  LET g == [f EXCEPT !.cnt_above_healthy_enter_ =
                        IF above_healthy_enter_(score, confidence) THEN @ + 1 ELSE 0,
                     !.cnt_below_down_enter_ =
                        IF below_down_enter_(score) THEN @ + 1 ELSE 0]
  IN IF g.cnt_above_healthy_enter_ >= cfg.fsm.healthy_enter_N /\ dwell_ok_(g, ts_now)
       THEN transition_(g, ts_now, "Healthy", "healthy_enter")
     ELSE IF down_fires_(g, ts_now)
       THEN transition_(g, ts_now, "Down", "down_enter")
     ELSE no_transition_(g)

\* case IfStatus::Degraded
update_Degraded_(f, ts_now, score, confidence) ==
  LET g == [f EXCEPT !.cnt_above_healthy_enter_ =
                        IF above_healthy_enter_(score, confidence) THEN @ + 1 ELSE 0,
                     !.cnt_below_down_enter_ =
                        IF below_down_enter_(score) THEN @ + 1 ELSE 0]
  IN IF down_fires_(g, ts_now)
       THEN transition_(g, ts_now, "Down", "down_enter")
     ELSE IF g.cnt_above_healthy_enter_ >= cfg.fsm.healthy_enter_N /\ dwell_ok_(g, ts_now)
       THEN transition_(g, ts_now, "Healthy", "healthy_enter")
     ELSE no_transition_(g)

\* case IfStatus::Down
update_Down_(f, ts_now, score) ==
  LET g == [f EXCEPT !.cnt_above_down_exit_ =
                        IF above_down_exit_(score) THEN @ + 1 ELSE 0]
  IN IF g.cnt_above_down_exit_ >= cfg.fsm.down_exit_N /\ dwell_ok_(g, ts_now)
       THEN transition_(g, ts_now, "Degraded", "down_exit")
       ELSE no_transition_(g)

update_force_down_falls_through(f, ts_now, score_in, confidence_in) ==
  LET score == clamp01_(score_in)
      confidence == clamp01_(confidence_in)
  IN IF force_down_(confidence) /\ f.status_ # "Down"
       THEN transition_(f, ts_now, "Down", "force_down")
     ELSE IF f.status_ = "Healthy" THEN update_Healthy_(f, ts_now, score)
     ELSE IF f.status_ = "Degraded" THEN update_Degraded_(f, ts_now, score, confidence)
     ELSE update_Down_(f, ts_now, score)

\* HysteresisFsm::update(ts_now, score, confidence)
update(f, ts_now, score_in, confidence_in) ==
  LET score == clamp01_(score_in)
      confidence == clamp01_(confidence_in)
  IN IF force_down_(confidence)
       THEN IF f.status_ # "Down"
              THEN transition_(f, ts_now, "Down", "force_down")
              ELSE no_transition_(f)
     ELSE IF f.status_ = "Healthy" THEN update_Healthy_(f, ts_now, score)
     ELSE IF f.status_ = "Degraded" THEN update_Degraded_(f, ts_now, score, confidence)
     ELSE update_Down_(f, ts_now, score)

CountersOf(f) ==
  {f.cnt_below_healthy_exit_, f.cnt_above_healthy_enter_,
   f.cnt_below_down_enter_, f.cnt_above_down_exit_}

\* ------------------------------------------------------------------------
\* RollingWindow
\* ------------------------------------------------------------------------
\* Metrics {rtt_ms, throughput_mbps, loss_pct, jitter_ms}, in tenths of the
\* unit so that loss_pct = 0.1 is representable
Metrics(rtt, tp, loss, jit) ==
  [rtt_ms |-> rtt, throughput_mbps |-> tp, loss_pct |-> loss, jitter_ms |-> jit]

\* Metrics{}: all channels 0
ZeroMetrics == Metrics(0, 0, 0, 0)
\* the steady-good eth0 sample {rtt=20, tp=180, loss=0.1, jit=3}
GoodMetrics == Metrics(200, 1800, 1, 30)
\* the near-down sample {rtt=600, tp=10, loss=25, jit=150}
BadMetrics == Metrics(6000, 100, 250, 1500)

\* the C++ % operator: the result has the sign of the dividend
cpp_mod(a, b) == IF a >= 0 THEN a % b ELSE 0 - ((0 - a) % b)

idx_short_ring(ts) ==
  LET m == cpp_mod(ts, kWindow - 1)
  IN IF m < 0 THEN m + (kWindow - 1) ELSE m

idx_no_wrap(ts) == cpp_mod(ts, kWindow)

\* RollingWindow::idx(ts)
idx(ts) ==
  LET m == cpp_mod(ts, kWindow)
  IN IF m < 0 THEN m + kWindow ELSE m

\* in_range(ts, lo, hi): lo <= ts <= hi
in_range(ts, lo, hi) == lo <= ts /\ ts <= hi

\* Slot{}: valid = false
EmptySlot == [valid |-> FALSE, ts |-> 0, m |-> ZeroMetrics]

\* a RollingWindow before any call: no timestamp seen, every slot invalid
NewWindow ==
  [newest_ts_ |-> INT64_MIN, slots_ |-> [i \in 0..(kWindow - 1) |-> EmptySlot]]

raise_newest_first_wins(newest, ts) ==
  IF newest = INT64_MIN THEN ts ELSE newest

raise_newest_last_wins(newest, ts) == ts

\* the newest_ts_ update at the head of ingest and in note_time
raise_newest_(newest, ts) ==
  IF newest = INT64_MIN \/ ts > newest THEN ts ELSE newest

too_old_off_by_one(newest, ts) == ts < newest - kWindow

\* ts < oldest_allowed, with oldest_allowed = newest_ts_ - (kWindow - 1)
too_old_(newest, ts) == ts < newest - (kWindow - 1)

write_slot_keep_first(s, ts, m) ==
  IF s.valid /\ s.ts = ts THEN s
  ELSE [valid |-> TRUE, ts |-> ts, m |-> m]

write_slot_no_evict(s, ts, m) ==
  IF ~s.valid THEN [valid |-> TRUE, ts |-> ts, m |-> m]
  ELSE IF s.ts = ts THEN [s EXCEPT !.m = m]
  ELSE s

\* the three slot cases of ingest: fill, same-ts replace, overwrite
write_slot_(s, ts, m) ==
  IF ~s.valid THEN [valid |-> TRUE, ts |-> ts, m |-> m]
  ELSE IF s.ts = ts THEN [s EXCEPT !.m = m]
  ELSE [valid |-> TRUE, ts |-> ts, m |-> m]

\* RollingWindow::ingest(ts, m): the window afterwards and the bool returned
RollingWindow_ingest(w, ts, m) ==
  LET newest == raise_newest_(w.newest_ts_, ts)
      w1 == [w EXCEPT !.newest_ts_ = newest]
  IN IF too_old_(newest, ts)
       THEN [win |-> w1, ret |-> FALSE]
       ELSE [win |-> [w1 EXCEPT !.slots_[idx(ts)] = write_slot_(@, ts, m)],
             ret |-> TRUE]

RollingWindow_note_time_frozen(w, ts_now) ==
  [w EXCEPT !.newest_ts_ = IF @ = INT64_MIN THEN ts_now ELSE @]

\* RollingWindow::note_time(ts_now)
RollingWindow_note_time(w, ts_now) ==
  [w EXCEPT !.newest_ts_ = raise_newest_(@, ts_now)]

\* sum of the metric channel ch over the slots at the ring indices in S
RECURSIVE SumOver(_, _, _)
SumOver(S, slots, ch) ==
  IF S = {} THEN 0
  ELSE LET i == CHOOSE j \in S : TRUE
       IN slots[i].m[ch] + SumOver(S \ {i}, slots, ch)

\* Summary out{} with expected = kWindow, missing_rate = 1, confidence = 0
EmptySummary ==
  [newest_ts |-> 0, oldest_ts |-> 0, count |-> 0, expected |-> kWindow,
   missing_rate |-> ONE, confidence |-> 0,
   avg_rtt |-> 0, avg_tp |-> 0, avg_loss |-> 0, avg_jit |-> 0]

RollingWindow_summary_by_flag(w) ==
  IF w.newest_ts_ = INT64_MIN THEN EmptySummary
  ELSE
    LET In == {i \in 0..(kWindow - 1) : w.slots_[i].valid}
        c == Cardinality(In)
    IN [newest_ts |-> w.newest_ts_, oldest_ts |-> w.newest_ts_ - (kWindow - 1),
        count |-> c, expected |-> kWindow,
        missing_rate |-> ONE - ((c * ONE) \div kWindow),
        confidence |-> (c * ONE) \div kWindow,
        avg_rtt |-> IF c > 0 THEN SumOver(In, w.slots_, "rtt_ms") \div c ELSE 0,
        avg_tp |-> IF c > 0 THEN SumOver(In, w.slots_, "throughput_mbps") \div c ELSE 0,
        avg_loss |-> IF c > 0 THEN SumOver(In, w.slots_, "loss_pct") \div c ELSE 0,
        avg_jit |-> IF c > 0 THEN SumOver(In, w.slots_, "jitter_ms") \div c ELSE 0]

\* RollingWindow::summary(); sum / c is truncated to the metric unit
RollingWindow_summary(w) ==
  IF w.newest_ts_ = INT64_MIN THEN EmptySummary
  ELSE
    LET newest == w.newest_ts_
        oldest == w.newest_ts_ - (kWindow - 1)
        In == {i \in 0..(kWindow - 1) :
                 w.slots_[i].valid /\ in_range(w.slots_[i].ts, oldest, newest)}
        c == Cardinality(In)
    IN [newest_ts |-> newest, oldest_ts |-> oldest, count |-> c,
        expected |-> kWindow,
        missing_rate |-> ONE - ((c * ONE) \div kWindow),
        confidence |-> (c * ONE) \div kWindow,
        avg_rtt |-> IF c > 0 THEN SumOver(In, w.slots_, "rtt_ms") \div c ELSE 0,
        avg_tp |-> IF c > 0 THEN SumOver(In, w.slots_, "throughput_mbps") \div c ELSE 0,
        avg_loss |-> IF c > 0 THEN SumOver(In, w.slots_, "loss_pct") \div c ELSE 0,
        avg_jit |-> IF c > 0 THEN SumOver(In, w.slots_, "jitter_ms") \div c ELSE 0]

has_sample_any_age(w, ts) ==
  IF w.newest_ts_ = INT64_MIN THEN FALSE
  ELSE w.slots_[idx(ts)].valid /\ w.slots_[idx(ts)].ts = ts

\* RollingWindow::has_sample(ts)
has_sample(w, ts) ==
  IF w.newest_ts_ = INT64_MIN THEN FALSE
  ELSE IF ~in_range(ts, w.newest_ts_ - (kWindow - 1), w.newest_ts_) THEN FALSE
  ELSE w.slots_[idx(ts)].valid /\ w.slots_[idx(ts)].ts = ts

\* RollingWindow::get(ts): std::optional<Metrics> as a sequence of length <= 1
get(w, ts) == IF ~has_sample(w, ts) THEN <<>> ELSE <<w.slots_[idx(ts)].m>>

\* ------------------------------------------------------------------------
\* InterfaceTracker
\* ------------------------------------------------------------------------
compute_avg_score_rtt_not_inverted(s) ==
  IF s.count <= 0 THEN 0
  ELSE
    LET c == cfg.score
        T == clamp01_((s.avg_tp * ONE) \div c.tp_max_mbps)
        rtt_span == IF c.rtt_max_ms - c.rtt_min_ms > 0
                      THEN c.rtt_max_ms - c.rtt_min_ms ELSE 1
        R == clamp01_(((s.avg_rtt - c.rtt_min_ms) * ONE) \div rtt_span)
        L == ONE - clamp01_((s.avg_loss * ONE) \div c.loss_max_pct)
        J == ONE - clamp01_((s.avg_jit * ONE) \div c.jit_max_ms)
        score == ((c.w_tp * T) + (c.w_rtt * R) + (c.w_loss * L) + (c.w_jit * J)) \div ONE
    IN clamp01_(score)

\* InterfaceTracker::compute_avg_score_(s)
compute_avg_score_(s) ==
  IF s.count <= 0 THEN 0
  ELSE
    LET c == cfg.score
        T == clamp01_((s.avg_tp * ONE) \div c.tp_max_mbps)
        \* std::max(1e-9, rtt_max - rtt_min): the smallest positive span
        rtt_span == IF c.rtt_max_ms - c.rtt_min_ms > 0
                      THEN c.rtt_max_ms - c.rtt_min_ms ELSE 1
        R == ONE - clamp01_(((s.avg_rtt - c.rtt_min_ms) * ONE) \div rtt_span)
        L == ONE - clamp01_((s.avg_loss * ONE) \div c.loss_max_pct)
        J == ONE - clamp01_((s.avg_jit * ONE) \div c.jit_max_ms)
        score == ((c.w_tp * T) + (c.w_rtt * R) + (c.w_loss * L) + (c.w_jit * J)) \div ONE
    IN clamp01_(score)

\* std::abs
abs(x) == IF x < 0 THEN 0 - x ELSE x

\* InterfaceTracker::compute_ewma_score_(prev_ewma, current_avg)
compute_ewma_score_(prev_ewma, current_avg) ==
  LET a == clamp01_(cfg.score.ewma_alpha)
      ewma == (a * current_avg + (ONE - a) * prev_ewma) \div ONE
      penalised == IF cfg.score.enable_downtrend_penalty /\ current_avg < prev_ewma
                     THEN ewma - abs(cfg.score.downtrend_penalty) ELSE ewma
  IN clamp01_(penalised)

\* InterfaceTracker::apply_confidence_cap_(score, confidence)
apply_confidence_cap_(score, confidence) ==
  IF ~cfg.score.enable_confidence_cap THEN score
  ELSE IF confidence >= cfg.score.cap_confidence_threshold THEN score
  ELSE IF score < cfg.score.cap_max_score_when_low_conf THEN score
  ELSE cfg.score.cap_max_score_when_low_conf

\* IfStatus{}: the first enumerator (the order of to_string's switch)
DefaultStatus == "Healthy"

\* InterfaceSnapshot{} with the interface name set
NewSnapshot(iface) ==
  [iface |-> iface, ts |-> 0, score_raw |-> 0, score_smoothed |-> 0,
   score_used |-> 0, confidence |-> 0, missing_rate |-> 0,
   avg_rtt_ms |-> 0, avg_tp_mbps |-> 0, avg_loss_pct |-> 0, avg_jitter_ms |-> 0,
   status |-> DefaultStatus]

NewTracker_starts_healthy(iface) ==
  [iface_ |-> iface,
   window_ |-> NewWindow,
   fsm_ |-> NewFsm("Healthy"),
   score_avg_ |-> 0, score_ewma_ |-> 0, ewma_init_ |-> FALSE, score_used_ |-> 0,
   last_snapshot_ |-> NewSnapshot(iface),
   last_transition_ |-> <<>>]

\* InterfaceTracker::InterfaceTracker(iface, cfg): the FSM starts in Degraded
NewTracker(iface) ==
  [iface_ |-> iface,
   window_ |-> NewWindow,
   fsm_ |-> NewFsm("Degraded"),
   score_avg_ |-> 0, score_ewma_ |-> 0, ewma_init_ |-> FALSE, score_used_ |-> 0,
   last_snapshot_ |-> NewSnapshot(iface),
   last_transition_ |-> <<>>]

confidence_per_gap(sum) ==
  IF sum.expected > 1 THEN (sum.count * ONE) \div (sum.expected - 1) ELSE 0

\* the confidence computed at the head of recompute_: count / expected
confidence_(sum) ==
  IF sum.expected > 0 THEN (sum.count * ONE) \div sum.expected ELSE 0

\* InterfaceTracker::recompute_(ts_now)
recompute_(t, ts_now) ==
  LET sum == RollingWindow_summary(t.window_)
      confidence == confidence_(sum)
      avg == apply_confidence_cap_(compute_avg_score_(sum), confidence)
      ewma == IF ~t.ewma_init_ THEN avg ELSE compute_ewma_score_(t.score_ewma_, avg)
      used == IF cfg.score.useEwma THEN ewma ELSE avg
      prev_status == t.fsm_.status_
      r == update(t.fsm_, ts_now, used, confidence)
  IN [t EXCEPT
        !.score_avg_ = avg,
        !.score_ewma_ = ewma,
        !.ewma_init_ = TRUE,
        !.score_used_ = used,
        !.fsm_ = r.fsm,
        !.last_snapshot_ =
           [iface |-> t.iface_, ts |-> ts_now, score_raw |-> avg,
            score_smoothed |-> ewma, score_used |-> used,
            confidence |-> confidence, missing_rate |-> sum.missing_rate,
            avg_rtt_ms |-> sum.avg_rtt, avg_tp_mbps |-> sum.avg_tp,
            avg_loss_pct |-> sum.avg_loss, avg_jitter_ms |-> sum.avg_jit,
            status |-> r.upd.status],
        !.last_transition_ =
           IF r.upd.transitioned /\ prev_status # r.upd.status
             THEN <<[iface |-> t.iface_, ts |-> ts_now, from |-> prev_status,
                     to |-> r.upd.status, reason |-> r.upd.reason]>>
             ELSE @]

InterfaceTracker_ingest_always_recompute(t, ts, m) ==
  LET r == RollingWindow_ingest(t.window_, ts, m)
      t1 == [t EXCEPT !.window_ = r.win]
  IN recompute_(t1, t1.window_.newest_ts_)

\* InterfaceTracker::ingest(ts, m)
InterfaceTracker_ingest(t, ts, m) ==
  LET r == RollingWindow_ingest(t.window_, ts, m)
      t1 == [t EXCEPT !.window_ = r.win]
  IN IF ~r.ret THEN t1 ELSE recompute_(t1, t1.window_.newest_ts_)

\* InterfaceTracker::note_time(ts_now)
InterfaceTracker_note_time(t, ts_now) ==
  recompute_([t EXCEPT !.window_ = RollingWindow_note_time(@, ts_now)], ts_now)

InterfaceTracker_drain_transition_no_clear(t) ==
  [tr |-> t, out |-> t.last_transition_]

\* InterfaceTracker::drain_transition(): the tracker afterwards and the
\* optional event returned
InterfaceTracker_drain_transition(t) ==
  [tr |-> [t EXCEPT !.last_transition_ = <<>>], out |-> t.last_transition_]

\* ------------------------------------------------------------------------
\* TelemetryAgent
\* ------------------------------------------------------------------------
\* interface names in the iteration order of std::map<std::string, ...>
IfaceOrder == <<"eth0", "wifi0">>

\* TelemetryAgent::TelemetryAgent(cfg): no tracker, nothing pending
NewAgent ==
  [trackers_ |-> <<>>, score_sum_ |-> <<>>, score_count_ |-> <<>>,
   pending_transitions_ |-> <<>>]

ensure_interface_reset(a, iface) ==
  [a EXCEPT
     !.trackers_ = [n \in DOMAIN @ \cup {iface} |->
                      IF n = iface THEN NewTracker(iface) ELSE @[n]],
     !.score_sum_ = [n \in DOMAIN @ \cup {iface} |-> IF n = iface THEN 0 ELSE @[n]],
     !.score_count_ = [n \in DOMAIN @ \cup {iface} |-> IF n = iface THEN 0 ELSE @[n]]]

\* TelemetryAgent::ensure_interface(iface)
ensure_interface(a, iface) ==
  IF iface \in DOMAIN a.trackers_ THEN a
  ELSE [a EXCEPT
          !.trackers_ = [n \in DOMAIN @ \cup {iface} |->
                           IF n = iface THEN NewTracker(iface) ELSE @[n]],
          !.score_sum_ = [n \in DOMAIN @ \cup {iface} |-> IF n = iface THEN 0 ELSE @[n]],
          !.score_count_ = [n \in DOMAIN @ \cup {iface} |-> IF n = iface THEN 0 ELSE @[n]]]

\* tr.<op>(...) followed by
\* if (auto ev = tr.drain_transition()) pending_transitions_.push_back(*ev)
collect_transition_(a, iface, t) ==
  LET d == InterfaceTracker_drain_transition(t)
  IN [a EXCEPT !.trackers_[iface] = d.tr,
               !.pending_transitions_ = @ \o d.out]

TelemetryAgent_ingest_ticks_all(a, iface, ts, m) ==
  LET a1 == ensure_interface(a, iface)
      a2 == collect_transition_(a1, iface,
                                InterfaceTracker_ingest(a1.trackers_[iface], ts, m))
  IN [a2 EXCEPT !.trackers_ =
        [n \in DOMAIN @ |->
           IF n = iface THEN @[n]
           ELSE InterfaceTracker_drain_transition(
                  InterfaceTracker_note_time(@[n], ts)).tr]]

\* TelemetryAgent::ingest(iface, ts, m)
TelemetryAgent_ingest(a, iface, ts, m) ==
  LET a1 == ensure_interface(a, iface)
  IN collect_transition_(a1, iface, InterfaceTracker_ingest(a1.trackers_[iface], ts, m))

\* TelemetryAgent::note_time(ts_now): the loop over trackers_ from position i
RECURSIVE note_time_from_(_, _, _)
note_time_from_(a, ts_now, i) ==
  IF i > Len(IfaceOrder) THEN a
  ELSE LET iface == IfaceOrder[i]
       IN IF iface \notin DOMAIN a.trackers_ THEN note_time_from_(a, ts_now, i + 1)
          ELSE note_time_from_(
                 collect_transition_(a, iface,
                    InterfaceTracker_note_time(a.trackers_[iface], ts_now)),
                 ts_now, i + 1)

TelemetryAgent_note_time(a, ts_now) == note_time_from_(a, ts_now, 1)

record_tick_skip_zero(a) ==
  [a EXCEPT
     !.score_sum_ = [n \in DOMAIN @ |-> @[n] + a.trackers_[n].last_snapshot_.score_used],
     !.score_count_ = [n \in DOMAIN @ |->
                         IF a.trackers_[n].last_snapshot_.score_used > 0
                           THEN @[n] + 1 ELSE @[n]]]

\* TelemetryAgent::record_tick()
record_tick(a) ==
  [a EXCEPT
     !.score_sum_ = [n \in DOMAIN @ |-> @[n] + a.trackers_[n].last_snapshot_.score_used],
     !.score_count_ = [n \in DOMAIN @ |-> @[n] + 1]]

drain_transitions_keep(a) ==
  [agent |-> a, out |-> a.pending_transitions_]

\* TelemetryAgent::drain_transitions(): the agent afterwards and the list returned
drain_transitions(a) ==
  [agent |-> [a EXCEPT !.pending_transitions_ = <<>>], out |-> a.pending_transitions_]

\* RunSummaryItem{iface, avg_score, last_status} of one interface
RunSummaryItem(a, iface) ==
  LET n == a.score_count_[iface]
  IN [iface |-> iface,
      avg_score |-> IF n > 0 THEN a.score_sum_[iface] \div n ELSE 0,
      last_status |-> a.trackers_[iface].last_snapshot_.status]

\* the sequences of length n over S without repetition
Orderings(S) ==
  {o \in [1..Cardinality(S) -> S] : \A i, j \in DOMAIN o : o[i] = o[j] => i = j}

\* TelemetryAgent::summary_ranked(): the lists std::sort may return for the
\* comparator a.avg_score > b.avg_score (items of equal avg_score may come
\* in either order)
summary_ranked(a) ==
  {o \in Orderings({RunSummaryItem(a, n) : n \in DOMAIN a.trackers_}) :
     \A i, j \in DOMAIN o : i < j => ~(o[j].avg_score > o[i].avg_score)}

\* the samples handed to ingest
MetricsSet == {GoodMetrics, BadMetrics}

\* ------------------------------------------------------------------------
\* Specification SpecFsm: a standalone HysteresisFsm driven by arbitrary
\* update calls with non-decreasing ts_now
\* ------------------------------------------------------------------------
\* scores at each of the four thresholds and in every band the code's
\* comparisons distinguish; 1200 is above 1.0 and is clamped
Scores == {0, 350, 450, 500, 660, 720, 1200}
\* confidences below the force-down threshold, at it (and below the
\* promotion threshold) and at the promotion threshold
Confidences == {0, 200, 500}

NoCall(f) ==
  [valid |-> FALSE, ts_now |-> 0, score |-> 0, confidence |-> 0,
   pre |-> f, upd |-> FsmUpdate(f.status_, FALSE, "")]

\* a specification that drives no standalone HysteresisFsm has none
IdleFsm == fsm = Absent /\ fsm_call = Absent

\* nothing passed to the window yet
NewHist == [max_seen |-> <<>>, last |-> <<>>]

\* a RollingWindow before any call
StartWin ==
  /\ win = NewWindow
  /\ win_call = [op |-> "none", ts |-> 0, m |-> ZeroMetrics, pre |-> win, ret |-> FALSE]

IdleWin == win = Absent /\ win_call = Absent /\ win_hist = Absent

\* no InterfaceTracker call made yet on the tracker t
NoTrackerCall(t) ==
  [op |-> "none", ts |-> 0, m |-> ZeroMetrics, n |-> 0, pre |-> t,
   out |-> <<>>, since |-> <<>>, n_since |-> 0, due |-> <<>>, n_due |-> 0]

\* an InterfaceTracker before any call
StartTracker ==
  /\ tr = NewTracker("eth0")
  /\ tr_call = NoTrackerCall(tr)

IdleTracker == tr = Absent /\ tr_call = Absent

\* no TelemetryAgent call made yet on the agent a
NoAgentCall(a) ==
  [op |-> "none", iface |-> "", ts |-> 0, m |-> ZeroMetrics, pre |-> a,
   out |-> <<>>, n |-> 0, log |-> <<>>, handed |-> <<>>, ticks |-> <<>>]

IdleHost == agent = Absent /\ host = Absent /\ agent_call = Absent

\* the two windows fed the sample set S: what is still to ingest into each,
\* the order ingested so far, and whether every ingest so far returned true
NewReorder(S) ==
  [S |-> S, a |-> NewWindow, b |-> NewWindow, todo_a |-> S, todo_b |-> S,
   order_a |-> <<>>, order_b |-> <<>>, all_true |-> TRUE]

IdleReorder == reorder = Absent

\* a specification that runs no scenario
IdleScenario == scenario = Absent

InitFsm ==
  /\ IdleScenario
  /\ cfg \in [fsm : FsmConfigs, score : {DefaultScore}]
  /\ \E initial \in Status : fsm = NewFsm(initial)
  /\ fsm_call = NoCall(fsm)
  /\ IdleWin /\ IdleTracker /\ IdleHost /\ IdleReorder

FsmUpdateCall ==
  \E ts_now \in fsm_call.ts_now .. (fsm_call.ts_now + MaxStep),
     score \in Scores, confidence \in Confidences :
    LET r == update(fsm, ts_now, score, confidence)
    IN /\ ts_now <= MaxTs
       /\ \A c \in CountersOf(r.fsm) : c <= MaxCnt
       /\ fsm' = r.fsm
       /\ fsm_call' = [valid |-> TRUE, ts_now |-> ts_now, score |-> score,
                       confidence |-> confidence, pre |-> fsm, upd |-> r.upd]
       /\ UNCHANGED <<cfg, scenario, reorderVars, winVars, trVars, hostVars>>

NextFsm == FsmUpdateCall

SpecFsm == InitFsm /\ [][NextFsm]_vars

\* ------------------------------------------------------------------------
\* Specification SpecPriority: the same update calls on a HysteresisFsm
\* whose bands overlap (healthy_exit < healthy_enter < down_enter <
\* down_exit), so that one score can be evidence for Degraded -> Healthy and
\* for Degraded -> Down at once
\* ------------------------------------------------------------------------
PriorityFsmConfigs ==
  { [c EXCEPT !.healthy_enter = 450, !.healthy_exit = 350,
              !.down_enter = 660, !.down_exit = 720] : c \in FsmConfigs }

InitPriority ==
  /\ IdleScenario
  /\ cfg \in [fsm : PriorityFsmConfigs, score : {DefaultScore}]
  /\ \E initial \in Status : fsm = NewFsm(initial)
  /\ fsm_call = NoCall(fsm)
  /\ IdleWin /\ IdleTracker /\ IdleHost /\ IdleReorder

SpecPriority == InitPriority /\ [][NextFsm]_vars

\* ------------------------------------------------------------------------
\* Specification SpecTracker: a standalone InterfaceTracker driven by
\* arbitrary note_time, ingest and drain_transition calls
\* ------------------------------------------------------------------------
TrackTs == 0..MaxTrackTs

\* force-down disabled (the default), a single confirmation for each of
\* the four transitions, a positive dwell
TrackerFsmConfigs ==
  {c \in FsmConfigs :
     /\ c.force_down_if_confidence_below < 0
     /\ c.min_dwell_sec = MaxDwell
     /\ c.healthy_enter_N = 1 /\ c.down_enter_N = 1}

InitTracker ==
  /\ IdleScenario
  /\ cfg \in [fsm : TrackerFsmConfigs, score : ScoreConfigs]
  /\ StartTracker
  /\ IdleFsm /\ IdleWin /\ IdleHost /\ IdleReorder

\* the status change between the tracker before and after a call, as the
\* part of a TransitionEvent the FSM itself determines
StatusChange(pre, post) ==
  IF pre.fsm_.status_ = post.fsm_.status_ THEN <<>>
  ELSE <<[iface |-> post.iface_, ts |-> post.fsm_.last_transition_ts_,
          from |-> pre.fsm_.status_, to |-> post.fsm_.status_]>>

\* the same part of a recorded TransitionEvent
EventCore(e) == [iface |-> e.iface, ts |-> e.ts, from |-> e.from, to |-> e.to]

\* the call record after a note_time or ingest that took the tracker to post
TrackerCalled(op, ts, m, post) ==
  LET ch == StatusChange(tr, post)
  IN [tr_call EXCEPT
        !.op = op, !.ts = ts, !.m = m, !.n = @ + 1, !.pre = tr, !.out = <<>>,
        !.since = IF ch # <<>> THEN ch ELSE @,
        !.n_since = IF ch # <<>> THEN @ + 1 ELSE @]

TrackerIngest ==
  \E ts \in TrackTs, m \in MetricsSet :
    /\ tr_call.n < MaxCalls
    /\ tr' = InterfaceTracker_ingest(tr, ts, m)
    /\ tr_call' = TrackerCalled("ingest", ts, m, tr')
    /\ UNCHANGED <<cfg, scenario, reorderVars, fsmVars, winVars, hostVars>>

TrackerNoteTime ==
  \E ts_now \in TrackTs :
    /\ tr_call.n < MaxCalls
    /\ tr' = InterfaceTracker_note_time(tr, ts_now)
    /\ tr_call' = TrackerCalled("note_time", ts_now, ZeroMetrics, tr')
    /\ UNCHANGED <<cfg, scenario, reorderVars, fsmVars, winVars, hostVars>>

TrackerDrain ==
  /\ tr_call.n < MaxCalls
  /\ tr' = InterfaceTracker_drain_transition(tr).tr
  /\ tr_call' = [op |-> "drain_transition", ts |-> 0, m |-> ZeroMetrics,
                 n |-> tr_call.n + 1, pre |-> tr,
                 out |-> InterfaceTracker_drain_transition(tr).out,
                 since |-> <<>>, n_since |-> 0,
                 due |-> tr_call.since, n_due |-> tr_call.n_since]
  /\ UNCHANGED <<cfg, scenario, reorderVars, fsmVars, winVars, hostVars>>

NextTracker == TrackerIngest \/ TrackerNoteTime \/ TrackerDrain

SpecTracker == InitTracker /\ [][NextTracker]_vars

\* ------------------------------------------------------------------------
\* Specification SpecCap: the same InterfaceTracker calls, with the
\* confidence cap enabled (threshold 0.5, cap 0.6)
\* ------------------------------------------------------------------------
CapScoreConfigs ==
  {[c EXCEPT !.enable_confidence_cap = TRUE] : c \in ScoreConfigs}

InitCap ==
  /\ IdleScenario
  /\ cfg \in [fsm : TrackerFsmConfigs, score : CapScoreConfigs]
  /\ StartTracker
  /\ IdleFsm /\ IdleWin /\ IdleHost /\ IdleReorder

SpecCap == InitCap /\ [][NextTracker]_vars

\* ------------------------------------------------------------------------
\* Specification SpecHost: the host loop of the tests and the CLI drives one
\* interface: each second t is note_time(t), ingest(t, m), record_tick()
\* ------------------------------------------------------------------------
HostIface == "eth0"

InitHost ==
  /\ IdleScenario
  /\ cfg \in [fsm : FsmConfigs, score : ScoreConfigs]
  /\ IdleFsm /\ IdleWin /\ IdleTracker /\ IdleReorder
  /\ agent = ensure_interface(NewAgent, HostIface)
  /\ agent_call = Absent
  /\ host = [pc |-> "note_time", t |-> 0, start |-> NewFsm("Degraded")]

HostNoteTime ==
  /\ host.pc = "note_time"
  /\ host.t < MaxSec
  /\ agent' = TelemetryAgent_note_time(agent, host.t)
  /\ host' = [host EXCEPT !.pc = "ingest"]
  /\ UNCHANGED <<cfg, scenario, reorderVars, fsmVars, winVars, trVars, agent_call>>

HostIngest ==
  /\ host.pc = "ingest"
  /\ \E m \in MetricsSet : agent' = TelemetryAgent_ingest(agent, HostIface, host.t, m)
  /\ host' = [host EXCEPT !.pc = "record_tick"]
  /\ UNCHANGED <<cfg, scenario, reorderVars, fsmVars, winVars, trVars, agent_call>>

HostRecordTick ==
  /\ host.pc = "record_tick"
  /\ agent' = record_tick(agent)
  /\ host' = [pc |-> "note_time", t |-> host.t + 1,
              start |-> agent.trackers_[HostIface].fsm_]
  /\ UNCHANGED <<cfg, scenario, reorderVars, fsmVars, winVars, trVars, agent_call>>

NextHost == HostNoteTime \/ HostIngest \/ HostRecordTick

SpecHost == InitHost /\ [][NextHost]_vars

\* ------------------------------------------------------------------------
\* Properties of HysteresisFsm (checked under SpecFsm)
\* ------------------------------------------------------------------------
\* the clamped arguments of the recorded call
CallScore == clamp01_(fsm_call.score)
CallConfidence == clamp01_(fsm_call.confidence)
\* seconds between the recorded call and the transition before it
SincePrevTransition == fsm_call.ts_now - fsm_call.pre.last_transition_ts_

\* C1: with non-decreasing ts_now, every transition whose target is not Down
\* happens at least min_dwell_sec after the previous transition, or when no
\* transition has happened yet; only transitions into Down may come sooner.
C1_DwellBeforeNonDownTransition ==
  (fsm_call.valid /\ fsm_call.upd.transitioned /\ fsm_call.upd.status # "Down")
    => \/ fsm_call.pre.last_transition_ts_ = INT64_MIN
       \/ SincePrevTransition >= cfg.fsm.min_dwell_sec

\* a non-Down transition fired exactly min_dwell_sec after the previous one
C1_Witness ==
  /\ fsm_call.valid /\ fsm_call.upd.transitioned /\ fsm_call.upd.status # "Down"
  /\ fsm_call.pre.last_transition_ts_ # INT64_MIN
  /\ cfg.fsm.min_dwell_sec > 0
  /\ SincePrevTransition = cfg.fsm.min_dwell_sec

\* C2: on every update call made in state S, whatever the score and the
\* confidence, a transition leaving S whose guard (as in the transition
\* table) does not hold in that call has its counter at 0 after the call.
C2_FailedGuardResetsCounter ==
  fsm_call.valid =>
    /\ (fsm_call.pre.status_ = "Healthy" /\ ~(CallScore <= cfg.fsm.healthy_exit))
         => fsm.cnt_below_healthy_exit_ = 0
    /\ (fsm_call.pre.status_ = "Degraded" /\ ~(CallScore <= cfg.fsm.down_enter))
         => fsm.cnt_below_down_enter_ = 0
    /\ (fsm_call.pre.status_ = "Degraded"
          /\ ~(CallScore >= cfg.fsm.healthy_enter
                 /\ CallConfidence >= cfg.fsm.min_confidence_for_promotion))
         => fsm.cnt_above_healthy_enter_ = 0
    /\ (fsm_call.pre.status_ = "Down" /\ ~(CallScore >= cfg.fsm.down_exit))
         => fsm.cnt_above_down_exit_ = 0

\* C4: with healthy_enter_N >= 1, every transition into Healthy happens in
\* an update call whose confidence is >= min_confidence_for_promotion.
C4_PromotionNeedsConfidence ==
  (fsm_call.valid /\ cfg.fsm.healthy_enter_N >= 1
     /\ fsm_call.upd.transitioned /\ fsm_call.upd.status = "Healthy")
    => CallConfidence >= cfg.fsm.min_confidence_for_promotion

\* a promotion to Healthy fired with the confidence exactly at the threshold
C4_Witness ==
  /\ fsm_call.valid /\ fsm_call.upd.transitioned /\ fsm_call.upd.status = "Healthy"
  /\ fsm_call.pre.status_ = "Degraded"
  /\ cfg.fsm.healthy_enter_N >= 1
  /\ CallConfidence = cfg.fsm.min_confidence_for_promotion

\* C5: in Degraded, the update in which the low-score guard has held for
\* down_enter_N consecutive updates transitions to Down, however little time
\* has passed since the previous transition.
C5_DownNotSuppressedByDwell ==
  (fsm_call.valid /\ fsm_call.pre.status_ = "Degraded"
     /\ CallScore < cfg.fsm.down_enter
     /\ fsm_call.pre.cnt_below_down_enter_ + 1 >= cfg.fsm.down_enter_N)
    => /\ fsm_call.upd.transitioned
       /\ fsm_call.upd.status = "Down"
       /\ fsm.status_ = "Down"

\* the counter-confirmed drop to Down fired while dwell was not satisfied
C5_Witness ==
  /\ fsm_call.valid /\ fsm_call.pre.status_ = "Degraded"
  /\ fsm_call.upd.transitioned /\ fsm_call.upd.reason = "down_enter"
  /\ fsm.status_ = "Down"
  /\ fsm_call.pre.last_transition_ts_ # INT64_MIN
  /\ SincePrevTransition < cfg.fsm.min_dwell_sec

\* C6: with force_down_if_confidence_below >= 0, an update with confidence
\* below it made in Healthy or Degraded transitions to Down and reports
\* transitioned, whatever the score, the counters and the dwell; with a
\* negative force_down_if_confidence_below the force-down path never fires.
C6_ForceDown ==
  fsm_call.valid =>
    /\ (cfg.fsm.force_down_if_confidence_below >= 0
          /\ fsm_call.confidence < cfg.fsm.force_down_if_confidence_below
          /\ fsm_call.pre.status_ \in {"Healthy", "Degraded"})
         => /\ fsm_call.upd.transitioned
            /\ fsm_call.upd.status = "Down"
            /\ fsm.status_ = "Down"
    /\ cfg.fsm.force_down_if_confidence_below < 0
         => /\ fsm_call.upd.reason # "force_down"
            /\ ~(fsm_call.pre.status_ = "Healthy" /\ fsm.status_ = "Down")

\* a forced drop from Healthy with the best score, no evidence counted and
\* dwell not satisfied
C6_Witness ==
  /\ fsm_call.valid /\ fsm_call.pre.status_ = "Healthy"
  /\ fsm_call.upd.transitioned /\ fsm.status_ = "Down"
  /\ fsm_call.confidence < cfg.fsm.force_down_if_confidence_below
  /\ CallScore = ONE
  /\ fsm_call.pre.cnt_below_healthy_exit_ = 0
  /\ fsm_call.pre.last_transition_ts_ # INT64_MIN
  /\ SincePrevTransition < cfg.fsm.min_dwell_sec

\* C7: immediately after any transition (counter-confirmed or forced) all
\* four confirmation counters are 0 and last_transition_ts is the ts_now of
\* that update.
C7_CountersResetOnTransition ==
  (fsm_call.valid /\ fsm_call.upd.transitioned)
    => /\ CountersOf(fsm) = {0}
       /\ fsm.last_transition_ts_ = fsm_call.ts_now

\* a counter-confirmed transition out of Down that needed two confirmations
C7_Witness ==
  /\ fsm_call.valid /\ fsm_call.upd.transitioned
  /\ fsm_call.upd.reason = "down_exit"
  /\ fsm_call.pre.cnt_above_down_exit_ >= 1
  /\ fsm.status_ = "Degraded"

\* Healthy and Degraded, and Degraded and Down, are adjacent
Adjacent(a, b) ==
  {a, b} \in {{"Healthy", "Degraded"}, {"Degraded", "Down"}}

\* C34: when force-down is disabled (force_down_if_confidence_below < 0),
\* every transition is between adjacent states (Healthy<->Degraded or
\* Degraded<->Down): the FSM never moves directly from Healthy to Down or
\* from Down to Healthy; a direct Healthy->Down step is possible only
\* through the force-down path.
C34_AdjacentTransitions ==
  fsm_call.valid =>
    /\ cfg.fsm.force_down_if_confidence_below < 0
         => /\ fsm.status_ # fsm_call.pre.status_
                 => Adjacent(fsm_call.pre.status_, fsm.status_)
            /\ fsm_call.upd.transitioned
                 => Adjacent(fsm_call.pre.status_, fsm_call.upd.status)
    /\ ~(fsm_call.pre.status_ = "Down" /\ fsm.status_ = "Healthy")
    /\ (fsm_call.pre.status_ = "Healthy" /\ fsm.status_ = "Down")
         => /\ fsm_call.upd.reason = "force_down"
            /\ cfg.fsm.force_down_if_confidence_below >= 0
            /\ CallConfidence < cfg.fsm.force_down_if_confidence_below

\* with force-down disabled, a Healthy FSM given the score 0 and confidence
\* 0, which is below down_enter too, moved to Degraded and not to Down
C34_Witness ==
  /\ fsm_call.valid /\ cfg.fsm.force_down_if_confidence_below < 0
  /\ fsm_call.pre.status_ = "Healthy"
  /\ CallScore = 0 /\ CallConfidence = 0
  /\ fsm_call.upd.transitioned /\ fsm.status_ = "Degraded"

\* C35: while force-down is enabled and every update has confidence <
\* force_down_if_confidence_below, an FSM in Down never leaves Down,
\* whatever the scores, and its cnt_above_down_exit counter is neither
\* incremented nor reset by those updates.
C35_ForcedDownFreezesFsm ==
  (fsm_call.valid /\ fsm_call.pre.status_ = "Down"
     /\ cfg.fsm.force_down_if_confidence_below >= 0
     /\ CallConfidence < cfg.fsm.force_down_if_confidence_below)
    => /\ fsm.status_ = "Down"
       /\ ~fsm_call.upd.transitioned /\ fsm_call.upd.status = "Down"
       /\ fsm.cnt_above_down_exit_ = fsm_call.pre.cnt_above_down_exit_
       /\ fsm = fsm_call.pre

\* a Down FSM that had counted recovery evidence was updated with the best
\* score and a confidence below the force-down threshold: the counter kept
\* its positive value
C35_Witness ==
  /\ fsm_call.valid /\ fsm_call.pre.status_ = "Down"
  /\ cfg.fsm.force_down_if_confidence_below >= 0
  /\ CallConfidence < cfg.fsm.force_down_if_confidence_below
  /\ CallScore = ONE
  /\ fsm_call.pre.cnt_above_down_exit_ >= 1
  /\ fsm.cnt_above_down_exit_ = fsm_call.pre.cnt_above_down_exit_
  /\ fsm.status_ = "Down"

\* ------------------------------------------------------------------------
\* Specification SpecWin: a standalone RollingWindow driven by arbitrary
\* ingest and note_time calls, in any timestamp order
\* ------------------------------------------------------------------------
WinTs == MinWinTs..MaxWinTs

\* the largest timestamp passed so far, after one more is passed
MaxSeen(prev, ts) == IF prev = <<>> \/ ts >= prev[1] THEN <<ts>> ELSE prev

\* the map f with key k bound to v
Put(f, k, v) == [x \in DOMAIN f \cup {k} |-> IF x = k THEN v ELSE f[x]]

InitWin ==
  /\ IdleScenario
  /\ cfg \in [fsm : {CHOOSE c \in FsmConfigs : TRUE}, score : {DefaultScore}]
  /\ StartWin /\ win_hist = Absent
  /\ IdleFsm /\ IdleTracker /\ IdleHost /\ IdleReorder

WinIngest ==
  \E ts \in WinTs, m \in MetricsSet :
    LET r == RollingWindow_ingest(win, ts, m)
    IN /\ win' = r.win
       /\ win_call' = [op |-> "ingest", ts |-> ts, m |-> m, pre |-> win, ret |-> r.ret]
       /\ win_hist' = win_hist
       /\ UNCHANGED <<cfg, scenario, reorderVars, fsmVars, trVars, hostVars>>

WinNoteTime ==
  \E ts_now \in WinTs :
    /\ win' = RollingWindow_note_time(win, ts_now)
    /\ win_call' = [op |-> "note_time", ts |-> ts_now, m |-> ZeroMetrics,
                    pre |-> win, ret |-> FALSE]
    /\ win_hist' = win_hist
    /\ UNCHANGED <<cfg, scenario, reorderVars, fsmVars, trVars, hostVars>>

NextWin == WinIngest \/ WinNoteTime

SpecWin == InitWin /\ [][NextWin]_vars

\* C38: in every reachable RollingWindow state, each slot with valid = true
\* at ring index i stores a timestamp ts with (ts mod W, made non-negative)
\* = i and ts <= newest_ts, so at most one stored sample exists per ring
\* index and the computed index is always in [0, W-1], including for
\* negative timestamps.
C38_SlotHoldsItsOwnIndex ==
  /\ DOMAIN win.slots_ = 0..(kWindow - 1)
  /\ \A i \in DOMAIN win.slots_ :
       win.slots_[i].valid
         => /\ win.slots_[i].ts % kWindow = i
            /\ idx(win.slots_[i].ts) = i
            /\ win.newest_ts_ # INT64_MIN
            /\ win.slots_[i].ts <= win.newest_ts_
  /\ \A ts \in WinTs : idx(ts) \in 0..(kWindow - 1)
  /\ win_call.op # "none" => idx(win_call.ts) \in DOMAIN win.slots_

\* an accepted ingest stored a negative timestamp at the ring index of its
\* non-negative residue while another slot holds a sample too
C38_Witness ==
  /\ win_call.op = "ingest" /\ win_call.ret /\ win_call.ts < 0
  /\ cpp_mod(win_call.ts, kWindow) < 0
  /\ win.slots_[idx(win_call.ts)].valid
  /\ win.slots_[idx(win_call.ts)].ts = win_call.ts
  /\ \E i \in DOMAIN win.slots_ \ {idx(win_call.ts)} : win.slots_[i].valid

\* ------------------------------------------------------------------------
\* Specification SpecMap: the same RollingWindow calls, with a record of
\* what the caller has passed so far
\* ------------------------------------------------------------------------
HistTs == (0 - 1)..MaxHistTs

InitMap ==
  /\ IdleScenario
  /\ cfg \in [fsm : {CHOOSE c \in FsmConfigs : TRUE}, score : {DefaultScore}]
  /\ StartWin /\ win_hist = NewHist
  /\ IdleFsm /\ IdleTracker /\ IdleHost /\ IdleReorder

MapIngest ==
  \E ts \in HistTs, m \in MetricsSet :
    LET r == RollingWindow_ingest(win, ts, m)
    IN /\ win' = r.win
       /\ win_call' = [op |-> "ingest", ts |-> ts, m |-> m, pre |-> win, ret |-> r.ret]
       /\ win_hist' = [max_seen |-> MaxSeen(win_hist.max_seen, ts),
                       last |-> IF r.ret THEN Put(win_hist.last, ts, m)
                                ELSE win_hist.last]
       /\ UNCHANGED <<cfg, scenario, reorderVars, fsmVars, trVars, hostVars>>

MapNoteTime ==
  \E ts_now \in HistTs :
    /\ win' = RollingWindow_note_time(win, ts_now)
    /\ win_call' = [op |-> "note_time", ts |-> ts_now, m |-> ZeroMetrics,
                    pre |-> win, ret |-> FALSE]
    /\ win_hist' = [win_hist EXCEPT !.max_seen = MaxSeen(@, ts_now)]
    /\ UNCHANGED <<cfg, scenario, reorderVars, fsmVars, trVars, hostVars>>

NextMap == MapIngest \/ MapNoteTime

SpecMap == InitMap /\ [][NextMap]_vars

\* ------------------------------------------------------------------------
\* Properties of RollingWindow (checked under SpecWin and SpecMap)
\* ------------------------------------------------------------------------
\* max(newest_ts, ts), where an unset newest_ts counts as absent
MaxNewest(w, ts) ==
  IF w.newest_ts_ = INT64_MIN \/ ts > w.newest_ts_ THEN ts ELSE w.newest_ts_

\* C9: after note_time(ts_now), an ingest(ts, m) with ts < ts_now - (W-1)
\* returns false and leaves newest_ts, every slot and the summary unchanged;
\* and ingest returns false exactly when ts < max(newest_ts, ts) - (W-1).
C9_TooOldRejected ==
  /\ \A ts_now \in WinTs, ts \in WinTs, m \in MetricsSet :
       LET w1 == RollingWindow_note_time(win, ts_now)
           r == RollingWindow_ingest(w1, ts, m)
       IN ts < ts_now - (kWindow - 1)
            => /\ r.ret = FALSE
               /\ r.win = w1
               /\ RollingWindow_summary(r.win) = RollingWindow_summary(w1)
  /\ win_call.op = "ingest"
       => (win_call.ret = FALSE
             <=> win_call.ts < MaxNewest(win_call.pre, win_call.ts) - (kWindow - 1))

\* an ingest one second older than the oldest allowed timestamp was rejected
\* by a window that holds samples, and changed nothing
C9_Witness ==
  /\ win_call.op = "ingest" /\ win_call.ret = FALSE
  /\ win_call.ts = win_call.pre.newest_ts_ - kWindow
  /\ win = win_call.pre
  /\ RollingWindow_summary(win).count > 0
  /\ win.slots_[idx(win_call.ts)].valid
  /\ win.slots_[idx(win_call.ts)].m # win_call.m

\* C10: from any window state, ingest(ts, m1) followed by ingest(ts, m2)
\* gives the same summary and the same get(ts) as a single ingest(ts, m2),
\* and when accepted m2 is the value stored for ts.
C10_SameTsCorrection ==
  \A ts \in WinTs, m1 \in MetricsSet, m2 \in MetricsSet :
    LET twice == RollingWindow_ingest(RollingWindow_ingest(win, ts, m1).win, ts, m2)
        once == RollingWindow_ingest(win, ts, m2)
    IN /\ RollingWindow_summary(twice.win) = RollingWindow_summary(once.win)
       /\ get(twice.win, ts) = get(once.win, ts)
       /\ twice.ret = once.ret
       /\ once.ret => get(twice.win, ts) = <<m2>>

\* an accepted ingest replaced a different value stored for the same
\* in-window timestamp, next to another sample
C10_Witness ==
  /\ win_call.op = "ingest" /\ win_call.ret
  /\ has_sample(win_call.pre, win_call.ts)
  /\ get(win_call.pre, win_call.ts) # <<win_call.m>>
  /\ get(win, win_call.ts) = <<win_call.m>>
  /\ RollingWindow_summary(win).count = RollingWindow_summary(win_call.pre).count
  /\ RollingWindow_summary(win).count >= 2

\* C12: ingesting ts and then ts + W (same ring index) replaces the older
\* sample: afterwards newest_ts >= ts + W, has_sample(ts) is false,
\* has_sample(ts + W) is true, and the summary is the one of a window that
\* never held the older sample (only the newer one counts at that index);
\* the two samples carry different metrics.
C12_RingIndexOverwrite ==
  \A ts \in WinTs, m1 \in MetricsSet : \A m2 \in MetricsSet \ {m1} :
    LET r1 == RollingWindow_ingest(win, ts, m1)
        r2 == RollingWindow_ingest(r1.win, ts + kWindow, m2)
        only == RollingWindow_ingest(win, ts + kWindow, m2)
    IN r1.ret
         => /\ idx(ts + kWindow) = idx(ts)
            /\ r2.ret
            /\ r2.win.newest_ts_ >= ts + kWindow
            /\ ~has_sample(r2.win, ts)
            /\ has_sample(r2.win, ts + kWindow)
            /\ get(r2.win, ts + kWindow) = <<m2>>
            /\ RollingWindow_summary(r2.win) = RollingWindow_summary(only.win)
            /\ RollingWindow_summary(r2.win).count >= 1

\* the slot the recorded ingest wrote, as it was before the call
OldSlot == win_call.pre.slots_[idx(win_call.ts)]

\* an ingest of ts + W replaced the in-window sample of ts, next to other
\* samples that stayed in the window
C12_Witness ==
  /\ win_call.op = "ingest" /\ win_call.ret
  /\ OldSlot.valid /\ OldSlot.ts = win_call.ts - kWindow
  /\ has_sample(win_call.pre, OldSlot.ts)
  /\ ~has_sample(win, OldSlot.ts) /\ has_sample(win, win_call.ts)
  /\ RollingWindow_summary(win).count = kWindow

\* C13: whenever an accepted ingest(ts, m) overwrites a slot that holds a
\* sample of a different timestamp, that timestamp lies outside the current
\* window [newest_ts-(W-1), newest_ts]; every sample of another timestamp
\* that is in the current window is still there after the ingest.
C13_OverwriteOnlyOutOfWindow ==
  (win_call.op = "ingest" /\ win_call.ret)
    => /\ (OldSlot.valid /\ OldSlot.ts # win_call.ts)
            => ~in_range(OldSlot.ts, win.newest_ts_ - (kWindow - 1), win.newest_ts_)
       /\ \A t \in WinTs :
            (t # win_call.ts /\ has_sample(win_call.pre, t)
               /\ in_range(t, win.newest_ts_ - (kWindow - 1), win.newest_ts_))
              => get(win, t) = get(win_call.pre, t)

\* an ingest after a jump of two ring turns overwrote a stale sample, and
\* a sample of another timestamp stayed in the window
C13_Witness ==
  /\ win_call.op = "ingest" /\ win_call.ret
  /\ OldSlot.valid /\ OldSlot.ts = win_call.ts - (2 * kWindow)
  /\ win.slots_[idx(win_call.ts)].ts = win_call.ts
  /\ RollingWindow_summary(win).count >= 2

\* C14: newest_ts never decreases under any sequence of ingest and
\* note_time calls, and after the first call it equals the maximum of all
\* timestamps passed to ingest (accepted or rejected) and note_time so far.
C14_NewestIsMaxSeen ==
  /\ win_call.pre.newest_ts_ <= win.newest_ts_
  /\ win_call.op # "none" => <<win.newest_ts_>> = win_hist.max_seen

\* after a sample of a negative timestamp was accepted and the largest
\* timestamp was passed, a note_time of a second older than the window
\* left newest_ts where it was
C14_Witness ==
  /\ win_call.op = "note_time" /\ win_call.ts < win.newest_ts_
  /\ win_call.pre.newest_ts_ = win.newest_ts_
  /\ win_call.ts < win.newest_ts_ - (kWindow - 1)
  /\ win_hist.max_seen = <<MaxHistTs>>
  /\ \E t \in DOMAIN win_hist.last : t < 0

\* the timestamps the map holds: accepted at some point and in the window
LiveTs ==
  {t \in DOMAIN win_hist.last :
     in_range(t, win.newest_ts_ - (kWindow - 1), win.newest_ts_)}

\* sum of the metric channel ch of the most recent accepted sample of each
\* timestamp in S
RECURSIVE SumLast(_, _)
SumLast(S, ch) ==
  IF S = {} THEN 0
  ELSE LET t == CHOOSE u \in S : TRUE
       IN win_hist.last[t][ch] + SumLast(S \ {t}, ch)

\* C15: the ring is a timestamp-keyed map: for every ts, has_sample(ts)
\* holds and get(ts) returns m exactly when ts is in
\* [newest_ts-(W-1), newest_ts] and m is the metrics of the most recent
\* accepted ingest at ts; summary().count is the number of such ts (so
\* 0 <= count <= W) and each average is the sum over them divided by count.
C15_RingIsTimestampMap ==
  LET sum == RollingWindow_summary(win)
      n == Cardinality(LiveTs)
  IN /\ \A t \in (0 - (kWindow + 1))..(MaxHistTs + kWindow) :
          /\ has_sample(win, t) <=> t \in LiveTs
          /\ get(win, t) = IF t \in LiveTs THEN <<win_hist.last[t]>> ELSE <<>>
     /\ sum.count = n
     /\ 0 <= sum.count /\ sum.count <= kWindow
     /\ n > 0 => /\ sum.avg_rtt = SumLast(LiveTs, "rtt_ms") \div n
                 /\ sum.avg_tp = SumLast(LiveTs, "throughput_mbps") \div n
                 /\ sum.avg_loss = SumLast(LiveTs, "loss_pct") \div n
                 /\ sum.avg_jit = SumLast(LiveTs, "jitter_ms") \div n

\* the window is full, one of its samples was corrected by a second ingest
\* of the same timestamp, and samples accepted earlier have slid out of it
C15_Witness ==
  /\ Cardinality(LiveTs) = kWindow
  /\ RollingWindow_summary(win).count = kWindow
  /\ Cardinality(DOMAIN win_hist.last) >= kWindow + 2
  /\ win_call.op = "ingest" /\ win_call.ret
  /\ get(win_call.pre, win_call.ts) \notin {<<>>, <<win_call.m>>}
  /\ \E t \in LiveTs, u \in LiveTs : win_hist.last[t] # win_hist.last[u]

\* ------------------------------------------------------------------------
\* Properties of InterfaceTracker (checked under SpecTracker and SpecHost)
\* ------------------------------------------------------------------------
\* the FSM of the interface the host drives
HostFsm == agent.trackers_[HostIface].fsm_

\* the counter that confirms the transition named by a reason, and its threshold
CounterOf(f, reason) ==
  CASE reason = "healthy_exit" -> f.cnt_below_healthy_exit_
    [] reason = "healthy_enter" -> f.cnt_above_healthy_enter_
    [] reason = "down_enter" -> f.cnt_below_down_enter_
    [] reason = "down_exit" -> f.cnt_above_down_exit_

ThresholdOf(reason) ==
  CASE reason = "healthy_exit" -> cfg.fsm.healthy_exit_N
    [] reason = "healthy_enter" -> cfg.fsm.healthy_enter_N
    [] reason = "down_enter" -> cfg.fsm.down_enter_N
    [] reason = "down_exit" -> cfg.fsm.down_exit_N

CounterReasons == {"healthy_exit", "healthy_enter", "down_enter", "down_exit"}

\* C3: when the host drives each second t as note_time(t), ingest(t, m),
\* record_tick(), each confirmation counter advances by at most one per
\* second: within second t no counter exceeds its value at the start of the
\* second by more than one, and a counter-confirmed transition fired in
\* second t had its counter at threshold - 1 or more when the second began
\* (so a threshold N needs N distinct tick timestamps).
C3_OneCountPerSecond ==
  host # Absent =>
    /\ \A r \in CounterReasons : CounterOf(HostFsm, r) <= CounterOf(host.start, r) + 1
    /\ \A i \in 1..Len(agent.pending_transitions_) :
         LET e == agent.pending_transitions_[i]
         IN (e.ts = host.t /\ e.reason \in CounterReasons)
              => ThresholdOf(e.reason) <= CounterOf(host.start, e.reason) + 1

\* C16: every snapshot produced by a recompute has score_raw,
\* score_smoothed, score_used, confidence and missing_rate in [0, 1],
\* confidence = count / W for the count of the window, and
\* missing_rate + confidence = 1, for any sequence of note_time and ingest
\* calls, late and rejected samples included.
C16_SnapshotRanges ==
  tr.ewma_init_ =>
    LET snap == tr.last_snapshot_
    IN /\ \A x \in {snap.score_raw, snap.score_smoothed, snap.score_used,
                     snap.confidence, snap.missing_rate} : 0 <= x /\ x <= ONE
       /\ snap.confidence = (RollingWindow_summary(tr.window_).count * ONE) \div kWindow
       /\ snap.missing_rate + snap.confidence = ONE

\* a snapshot of a full window, taken after a late sample was accepted
C16_Witness ==
  /\ tr.ewma_init_
  /\ tr_call.op = "ingest" /\ tr_call.ts < tr.window_.newest_ts_
  /\ tr # tr_call.pre
  /\ RollingWindow_summary(tr.window_).count = kWindow
  /\ tr.last_snapshot_.confidence = ONE /\ tr.last_snapshot_.missing_rate = 0
  /\ tr.last_snapshot_.score_raw > 0

\* the recorded call was an ingest that the window rejected as too old
TrackerIngestRejected ==
  /\ tr_call.op = "ingest"
  /\ ~RollingWindow_ingest(tr_call.pre.window_, tr_call.ts, tr_call.m).ret

\* an agent whose only tracker is t, as the agent keeps it between calls
\* (mailbox drained), with nothing queued
AgentHolding(t) ==
  [trackers_ |-> [n \in {t.iface_} |-> [t EXCEPT !.last_transition_ = <<>>]],
   score_sum_ |-> [n \in {t.iface_} |-> 0],
   score_count_ |-> [n \in {t.iface_} |-> 0],
   pending_transitions_ |-> <<>>]

\* C17: an InterfaceTracker ingest(ts, m) that the window rejects as too old
\* has no side effects: the window, score_raw, score_ewma and its
\* initialised flag, score_used, the FSM state and counters, the snapshot
\* and the pending transition are all unchanged, and an agent holding the
\* tracker queues no TransitionEvent for it.
C17_RejectedIngestNoEffect ==
  TrackerIngestRejected =>
    /\ tr = tr_call.pre
    /\ LET a == AgentHolding(tr_call.pre)
       IN TelemetryAgent_ingest(a, tr.iface_, tr_call.ts, tr_call.m) = a

\* a too-old sample was rejected by a tracker that has recomputed before,
\* holds a sample and has a transition pending in its mailbox
C17_Witness ==
  /\ TrackerIngestRejected
  /\ tr.ewma_init_
  /\ tr.last_transition_ # <<>>
  /\ RollingWindow_summary(tr.window_).count >= 1
  /\ tr.fsm_.status_ # "Degraded"

\* C19: the pending transition of a tracker is an at-most-one mailbox: it
\* holds the most recent status change since the previous drain_transition
\* (earlier undrained ones are overwritten); drain_transition returns it and
\* clears it, so a drain_transition with no status change since the
\* previous one returns nothing.
C19_MailboxLastWriterWins ==
  /\ Len(tr.last_transition_) <= 1
  /\ [i \in DOMAIN tr.last_transition_ |-> EventCore(tr.last_transition_[i])]
       = tr_call.since
  /\ tr_call.op = "drain_transition"
       => /\ [i \in DOMAIN tr_call.out |-> EventCore(tr_call.out[i])] = tr_call.due
          /\ tr.last_transition_ = <<>>
          /\ tr_call.n_due = 0 => tr_call.out = <<>>

\* a drain_transition returned the second of two status changes made
\* since the previous drain
C19_Witness ==
  /\ tr_call.op = "drain_transition"
  /\ tr_call.n_due >= 2
  /\ Len(tr_call.out) = 1
  /\ tr_call.out[1].from = "Down" /\ tr_call.out[1].to = "Degraded"
  /\ tr.last_transition_ = <<>>

\* C23: when enable_confidence_cap is set and the confidence of a recompute
\* is below cap_confidence_threshold, the score fed to the FSM (score_used)
\* is <= cap_max_score_when_low_conf, with use_ewma = false and with
\* use_ewma = true.
C23_CapBoundsScoreUsed ==
  (cfg.score.enable_confidence_cap /\ tr.ewma_init_
     /\ tr.last_snapshot_.confidence < cfg.score.cap_confidence_threshold)
    => /\ tr.last_snapshot_.score_used <= cfg.score.cap_max_score_when_low_conf
       /\ tr.score_used_ <= cfg.score.cap_max_score_when_low_conf

\* the recorded call recomputed: a note_time or an accepted ingest
TrackerRecomputed ==
  \/ tr_call.op = "note_time"
  \/ /\ tr_call.op = "ingest"
     /\ RollingWindow_ingest(tr_call.pre.window_, tr_call.ts, tr_call.m).ret

\* C36: after every tracker operation that recomputes (note_time or an
\* accepted ingest), snapshot.ts equals the window's newest_ts, so
\* snapshot.ts and the ts_now values given to the FSM (and hence
\* last_transition_ts and TransitionEvent.ts) never decrease, even when
\* note_time is called with a timestamp older than one already seen.
C36_SnapshotTsIsNewest ==
  TrackerRecomputed =>
    /\ tr.last_snapshot_.ts = tr.window_.newest_ts_
    /\ tr_call.pre.ewma_init_ => tr.last_snapshot_.ts >= tr_call.pre.last_snapshot_.ts
    /\ tr.fsm_.last_transition_ts_ >= tr_call.pre.fsm_.last_transition_ts_

\* time has advanced by W or more past every stored sample
AllStoredExpired(w) ==
  \A i \in DOMAIN w.slots_ :
    w.slots_[i].valid => w.newest_ts_ - w.slots_[i].ts >= kWindow

\* C32: with no further ingests, successive note_time calls with increasing
\* time never increase summary().count (confidence), and once time has
\* advanced by W or more past the newest stored sample the count is 0 and
\* score_raw is 0, even though the slots' valid flags are still set.
C32_NoteTimeDecaysConfidence ==
  tr_call.op = "note_time" =>
    LET before == RollingWindow_summary(tr_call.pre.window_)
        after == RollingWindow_summary(tr.window_)
    IN /\ after.count <= before.count
       /\ after.confidence <= before.confidence
       /\ tr.last_snapshot_.confidence = after.confidence
       /\ tr.window_.slots_ = tr_call.pre.window_.slots_
       /\ AllStoredExpired(tr.window_)
            => /\ after.count = 0
               /\ tr.score_avg_ = 0
               /\ tr.last_snapshot_.score_raw = 0
               /\ tr.last_snapshot_.confidence = 0

\* a note_time took the only sample out of the window: the count fell from 1
\* to 0 and the raw score from a positive value to 0 while the slot is
\* still flagged valid
C32_Witness ==
  /\ tr_call.op = "note_time"
  /\ RollingWindow_summary(tr_call.pre.window_).count >= 1
  /\ tr_call.pre.score_avg_ > 0
  /\ RollingWindow_summary(tr.window_).count = 0
  /\ tr.last_snapshot_.score_raw = 0
  /\ \E i \in DOMAIN tr.window_.slots_ : tr.window_.slots_[i].valid
  /\ AllStoredExpired(tr.window_)

\* no sample has ever been accepted: a slot once written stays valid
NoSampleAccepted(t) ==
  \A i \in 0..(kWindow - 1) : ~t.window_.slots_[i].valid

\* C8: as long as no sample has ever been accepted, any sequence of
\* note_time calls keeps score_raw, score_ewma and score_used at 0, leaves
\* the FSM in the initial Degraded state and produces no TransitionEvent.
C8_NoSampleNoTransition ==
  NoSampleAccepted(tr) =>
    /\ tr.score_avg_ = 0 /\ tr.score_ewma_ = 0 /\ tr.score_used_ = 0
    /\ tr.fsm_.status_ = "Degraded"
    /\ tr.last_transition_ = <<>>

\* ------------------------------------------------------------------------
\* Properties of the FSM's guards, dwell and counters (checked under SpecFsm)
\* ------------------------------------------------------------------------
\* the recorded call went past the force-down block into the switch
CallInSwitch == fsm_call.valid /\ ~force_down_(CallConfidence)

\* the recorded call counted evidence for the transition named by reason:
\* its counter advanced by one, or the transition fired
Counted(reason) ==
  \/ fsm_call.upd.reason = reason
  \/ CounterOf(fsm, reason) = CounterOf(fsm_call.pre, reason) + 1

NotCounted(reason) ==
  fsm_call.upd.reason # reason /\ CounterOf(fsm, reason) = 0

FromOf(reason) ==
  CASE reason = "healthy_exit" -> "Healthy"
    [] reason = "healthy_enter" -> "Degraded"
    [] reason = "down_enter" -> "Degraded"
    [] reason = "down_exit" -> "Down"

\* the guard of the transition named by reason holds in the recorded call
GuardHolds(reason) ==
  CASE reason = "healthy_exit" -> below_healthy_exit_(CallScore)
    [] reason = "healthy_enter" -> above_healthy_enter_(CallScore, CallConfidence)
    [] reason = "down_enter" -> below_down_enter_(CallScore)
    [] reason = "down_exit" -> above_down_exit_(CallScore)

\* the counter of the transition named by reason after the counting step
\* of the recorded call, before any transition resets it
CountedTo(reason) ==
  IF GuardHolds(reason) THEN CounterOf(fsm_call.pre, reason) + 1 ELSE 0

\* the transitions that wait for dwell
DwellReasons == {"healthy_exit", "healthy_enter", "down_exit"}

C29_DownBeforeHealthy ==
  (CallInSwitch /\ fsm_call.pre.status_ = "Degraded"
     /\ CountedTo("down_enter") >= ThresholdOf("down_enter")
     /\ CountedTo("healthy_enter") >= ThresholdOf("healthy_enter"))
    => /\ fsm_call.upd.transitioned
       /\ fsm_call.upd.status = "Down"
       /\ fsm.status_ = "Down"

\* one score above healthy_enter and below down_enter confirmed both
\* transitions in the same update, with dwell satisfied, and the FSM went Down
C29_Witness ==
  /\ CallInSwitch /\ fsm_call.pre.status_ = "Degraded"
  /\ GuardHolds("down_enter") /\ GuardHolds("healthy_enter")
  /\ CountedTo("down_enter") >= ThresholdOf("down_enter")
  /\ CountedTo("healthy_enter") >= ThresholdOf("healthy_enter")
  /\ cfg.fsm.healthy_enter_N > 1
  /\ dwell_ok_(fsm_call.pre, fsm_call.ts_now)
  /\ fsm.status_ = "Down"

\* C30: in every reachable FSM state, the counters of transitions that
\* cannot fire from the current status are 0: in Healthy only
\* cnt_below_healthy_exit may be non-zero, in Down only cnt_above_down_exit,
\* and in Degraded only cnt_above_healthy_enter and cnt_below_down_enter.
C30_OnlyOwnCountersNonZero ==
  \A r \in CounterReasons :
    FromOf(r) # fsm.status_ => CounterOf(fsm, r) = 0

\* the FSM entered Down by a counter-confirmed transition that needed two
\* confirmations and has counted evidence for leaving it since
C30_Witness ==
  /\ fsm.status_ = "Down" /\ fsm.cnt_above_down_exit_ >= 1
  /\ fsm.last_transition_ts_ # INT64_MIN
  /\ cfg.fsm.down_enter_N > 1
  /\ cfg.fsm.force_down_if_confidence_below < 0
  /\ fsm_call.valid /\ fsm_call.pre.status_ = "Down"

\* ------------------------------------------------------------------------
\* Specification SpecAgent: a TelemetryAgent driven by arbitrary
\* ensure_interface, ingest, note_time, record_tick and drain_transitions
\* calls on two interfaces
\* ------------------------------------------------------------------------
Ifaces == {IfaceOrder[i] : i \in 1..Len(IfaceOrder)}

\* the first second, the next one, and the first second whose window no
\* longer holds second 0
AgentTs == {0, 1, kWindow}

InitAgent ==
  /\ IdleScenario
  /\ cfg \in [fsm : TrackerFsmConfigs, score : {DefaultScore}]
  /\ agent = NewAgent /\ agent_call = NoAgentCall(agent) /\ host = Absent
  /\ IdleFsm /\ IdleWin /\ IdleTracker /\ IdleReorder

\* the status changes of the interfaces between the agent before and after
\* a call, in the iteration order of trackers_; an interface registered by
\* the call starts from a new tracker
RECURSIVE StatusChanges(_, _, _)
StatusChanges(pre, post, i) ==
  IF i > Len(IfaceOrder) THEN <<>>
  ELSE LET iface == IfaceOrder[i]
           here == IF iface \notin DOMAIN post.trackers_ THEN <<>>
                   ELSE IF iface \in DOMAIN pre.trackers_
                     THEN StatusChange(pre.trackers_[iface], post.trackers_[iface])
                   ELSE StatusChange(NewTracker(iface), post.trackers_[iface])
       IN here \o StatusChanges(pre, post, i + 1)

\* what record_tick calls have observed for each registered interface, after
\* one more call: a record_tick observes the score_used of the snapshot of
\* every interface registered when it is called
TicksAfter(op, post) ==
  [n \in DOMAIN post.trackers_ |->
     LET sofar == IF n \in DOMAIN agent_call.ticks THEN agent_call.ticks[n] ELSE <<>>
     IN IF op = "record_tick" /\ n \in DOMAIN agent.trackers_
          THEN Append(sofar, agent.trackers_[n].last_snapshot_.score_used)
          ELSE sofar]

\* the call record after a call that took the agent to post and returned out
AgentCalled(op, iface, ts, m, post, out) ==
  [op |-> op, iface |-> iface, ts |-> ts, m |-> m, pre |-> agent, out |-> out,
   n |-> agent_call.n + 1,
   log |-> agent_call.log \o StatusChanges(agent, post, 1),
   handed |-> agent_call.handed \o out,
   ticks |-> TicksAfter(op, post)]

AgentEnsure ==
  \E iface \in Ifaces :
    /\ agent_call.n < MaxAgentCalls
    /\ agent' = ensure_interface(agent, iface)
    /\ agent_call' = AgentCalled("ensure_interface", iface, 0, ZeroMetrics, agent', <<>>)
    /\ UNCHANGED <<cfg, scenario, reorderVars, fsmVars, winVars, trVars, host>>

AgentIngest ==
  \E iface \in Ifaces, ts \in AgentTs, m \in MetricsSet :
    /\ agent_call.n < MaxAgentCalls
    /\ agent' = TelemetryAgent_ingest(agent, iface, ts, m)
    /\ agent_call' = AgentCalled("ingest", iface, ts, m, agent', <<>>)
    /\ UNCHANGED <<cfg, scenario, reorderVars, fsmVars, winVars, trVars, host>>

AgentNoteTime ==
  \E ts_now \in AgentTs :
    /\ agent_call.n < MaxAgentCalls
    /\ agent' = TelemetryAgent_note_time(agent, ts_now)
    /\ agent_call' = AgentCalled("note_time", "", ts_now, ZeroMetrics, agent', <<>>)
    /\ UNCHANGED <<cfg, scenario, reorderVars, fsmVars, winVars, trVars, host>>

AgentRecordTick ==
  /\ agent_call.n < MaxAgentCalls
  /\ agent' = record_tick(agent)
  /\ agent_call' = AgentCalled("record_tick", "", 0, ZeroMetrics, agent', <<>>)
  /\ UNCHANGED <<cfg, scenario, reorderVars, fsmVars, winVars, trVars, host>>

AgentDrain ==
  /\ agent_call.n < MaxAgentCalls
  /\ agent' = drain_transitions(agent).agent
  /\ agent_call' = AgentCalled("drain_transitions", "", 0, ZeroMetrics, agent',
                               drain_transitions(agent).out)
  /\ UNCHANGED <<cfg, scenario, reorderVars, fsmVars, winVars, trVars, host>>

NextAgent ==
  AgentEnsure \/ AgentIngest \/ AgentNoteTime \/ AgentRecordTick \/ AgentDrain

SpecAgent == InitAgent /\ [][NextAgent]_vars

\* ------------------------------------------------------------------------
\* Properties of TelemetryAgent (checked under SpecAgent)
\* ------------------------------------------------------------------------
\* the part of each event of a list that the FSM itself determines
EventCores(evs) == [i \in DOMAIN evs |-> EventCore(evs[i])]

C20_RegistrationIdempotent ==
  LET pre == agent_call.pre
      name == agent_call.iface
  IN /\ DOMAIN pre.trackers_ \subseteq DOMAIN agent.trackers_
     /\ DOMAIN agent.score_sum_ = DOMAIN agent.trackers_
     /\ DOMAIN agent.score_count_ = DOMAIN agent.trackers_
     /\ (agent_call.op = "ensure_interface" /\ name \in DOMAIN pre.trackers_)
          => agent = pre
     /\ (agent_call.op = "ingest" /\ name \in DOMAIN pre.trackers_)
          => /\ agent.trackers_[name] =
                  InterfaceTracker_drain_transition(
                    InterfaceTracker_ingest(pre.trackers_[name],
                                            agent_call.ts, agent_call.m)).tr
             /\ agent.score_sum_ = pre.score_sum_
             /\ agent.score_count_ = pre.score_count_
             /\ \A n \in DOMAIN pre.trackers_ \ {name} :
                  agent.trackers_[n] = pre.trackers_[n]

\* ensure_interface was called for an interface that already had a sample,
\* a status other than the initial one and a recorded tick
C20_Witness ==
  /\ agent_call.op = "ensure_interface"
  /\ agent_call.iface \in DOMAIN agent_call.pre.trackers_
  /\ agent = agent_call.pre
  /\ LET t == agent.trackers_[agent_call.iface]
     IN /\ RollingWindow_summary(t.window_).count >= 1
        /\ t.fsm_.status_ # "Degraded"
        /\ t.last_snapshot_.score_used > 0
  /\ agent.score_count_[agent_call.iface] >= 1
  /\ agent.score_sum_[agent_call.iface] > 0

\* sum of a sequence of numbers
RECURSIVE SumSeq(_)
SumSeq(q) == IF q = <<>> THEN 0 ELSE q[1] + SumSeq(Tail(q))

\* mean of a sequence of scores, 0 for the empty sequence
MeanOf(q) == IF q = <<>> THEN 0 ELSE SumSeq(q) \div Len(q)

\* C21: summary_ranked returns exactly one item per registered interface,
\* ordered by non-increasing avg_score, where avg_score is the mean of
\* snapshot.score_used over the record_tick calls made since the interface
\* was registered (0 if there were none) and last_status is the status of
\* the interface's current snapshot; record_tick adds exactly one
\* observation per registered interface per call.
C21_SummaryRanked ==
  /\ summary_ranked(agent) # {}
  /\ \A out \in summary_ranked(agent) :
       /\ Len(out) = Cardinality(DOMAIN agent.trackers_)
       /\ {out[i].iface : i \in DOMAIN out} = DOMAIN agent.trackers_
       /\ \A i \in DOMAIN out :
            /\ i > 1 => out[i - 1].avg_score >= out[i].avg_score
            /\ out[i].avg_score = MeanOf(agent_call.ticks[out[i].iface])
            /\ out[i].last_status =
                 agent.trackers_[out[i].iface].last_snapshot_.status
  /\ \A n \in DOMAIN agent.trackers_ :
       agent.score_count_[n] = Len(agent_call.ticks[n])
  /\ agent_call.op = "record_tick"
       => \A n \in DOMAIN agent_call.pre.trackers_ :
            agent.score_count_[n] = agent_call.pre.score_count_[n] + 1

\* two interfaces with ticks recorded, the one that is later in name order
\* ranked first, and the other one registered earlier and observed more often
C21_Witness ==
  /\ agent_call.op = "record_tick"
  /\ DOMAIN agent.trackers_ = Ifaces
  /\ \A out \in summary_ranked(agent) :
       /\ out[1].iface = IfaceOrder[2]
       /\ out[1].avg_score > out[2].avg_score
       /\ out[1].last_status # out[2].last_status
  /\ \E n \in Ifaces : Len(agent_call.ticks[n]) > Len(agent_call.ticks[IfaceOrder[2]])

\* the TransitionEvents of interface n so far, handed out or still queued
EventsOf(n) ==
  SelectSeq(agent_call.handed \o agent.pending_transitions_,
            LAMBDA e : e.iface = n)

\* C33: the TransitionEvents of one interface form a chain: every event has
\* from != to, the first event's from is Degraded (the initial FSM state),
\* each later event's from equals the previous event's to, and the to of
\* the latest event equals the status in the interface's current snapshot.
C33_EventsFormChain ==
  \A n \in DOMAIN agent.trackers_ :
    LET evs == EventsOf(n)
    IN /\ \A i \in DOMAIN evs : evs[i].from # evs[i].to
       /\ evs # <<>> => evs[1].from = "Degraded"
       /\ \A i \in 2..Len(evs) : evs[i].from = evs[i - 1].to
       /\ evs # <<>>
            => /\ evs[Len(evs)].to = agent.trackers_[n].last_snapshot_.status
               /\ evs[Len(evs)].to = agent.trackers_[n].fsm_.status_

\* one interface has gone Degraded -> Down -> Degraded while the other has
\* an event of its own in between or around
C33_Witness ==
  \E n \in DOMAIN agent.trackers_ :
    /\ Len(EventsOf(n)) >= 2
    /\ EventsOf(n)[1].from = "Degraded"
    /\ EventsOf(n)[2].from = EventsOf(n)[1].to
    /\ EventsOf(n)[2].to = agent.trackers_[n].last_snapshot_.status
    /\ \E o \in DOMAIN agent.trackers_ \ {n} : Len(EventsOf(o)) >= 1

\* C31: operations on one interface are independent of the others:
\* Agent.ingest(name, ts, m) leaves the window, scores, FSM state and
\* snapshot of every other registered interface unchanged, and appends to
\* the agent's transition queue only events whose iface is name.
C31_IngestTouchesOneInterface ==
  agent_call.op = "ingest" =>
    LET pre == agent_call.pre
        was == Len(pre.pending_transitions_)
    IN /\ \A n \in DOMAIN pre.trackers_ \ {agent_call.iface} :
            /\ n \in DOMAIN agent.trackers_
            /\ agent.trackers_[n] = pre.trackers_[n]
       /\ DOMAIN agent.trackers_ = DOMAIN pre.trackers_ \cup {agent_call.iface}
       /\ Len(agent.pending_transitions_) >= was
       /\ SubSeq(agent.pending_transitions_, 1, was) = pre.pending_transitions_
       /\ \A i \in (was + 1)..Len(agent.pending_transitions_) :
            agent.pending_transitions_[i].iface = agent_call.iface

\* an ingest changed the status of its interface and queued the event behind
\* an event of the other interface, which holds a sample and has left the
\* initial status
C31_Witness ==
  /\ agent_call.op = "ingest"
  /\ Len(agent.pending_transitions_) = 2
  /\ Len(agent_call.pre.pending_transitions_) = 1
  /\ agent.pending_transitions_[1].iface # agent_call.iface
  /\ agent.pending_transitions_[2].iface = agent_call.iface
  /\ \E n \in DOMAIN agent.trackers_ \ {agent_call.iface} :
       /\ RollingWindow_summary(agent.trackers_[n].window_).count >= 1
       /\ agent.trackers_[n].fsm_.status_ # "Degraded"
       /\ agent.trackers_[n] = agent_call.pre.trackers_[n]

\* ------------------------------------------------------------------------
\* Specification SpecCtor: a HysteresisFsm, an InterfaceTracker and a
\* TelemetryAgent are constructed from a configuration that may be invalid,
\* and then used
\* ------------------------------------------------------------------------
\* the reference thresholds and the orderings the schema excludes:
\* healthy_exit = healthy_enter and down_enter = down_exit
CtorFsmConfigs ==
  { [c EXCEPT !.healthy_exit = he, !.down_enter = de] :
      c \in {d \in TrackerFsmConfigs : d.min_dwell_sec = MaxDwell},
      he \in {660, 720}, de \in {350, 450} }

\* the reference weights and normalisation points, a negative weight and a
\* zero-width RTT span
CtorScoreConfigs ==
  { [c EXCEPT !.w_tp = w, !.rtt_max_ms = rmax] :
      c \in {DefaultScore}, w \in {300, 0 - 300}, rmax \in {8000, 100} }

\* the configurations section 6 of the schema rules out
InvalidConfig(c) ==
  \/ c.fsm.healthy_exit >= c.fsm.healthy_enter
  \/ c.fsm.down_enter >= c.fsm.down_exit
  \/ \E w \in {c.score.w_tp, c.score.w_rtt, c.score.w_loss, c.score.w_jit} : w < 0
  \/ c.score.rtt_max_ms <= c.score.rtt_min_ms

InitCtor ==
  /\ IdleScenario
  /\ cfg \in [fsm : CtorFsmConfigs, score : CtorScoreConfigs]
  /\ IdleFsm /\ IdleWin /\ IdleTracker /\ IdleHost /\ IdleReorder

\* HysteresisFsm fsm(cfg.fsm, initial)
CtorFsm ==
  /\ fsm = Absent
  /\ \E initial \in Status : fsm' = NewFsm(initial)
  /\ fsm_call' = NoCall(fsm')
  /\ UNCHANGED <<cfg, scenario, reorderVars, winVars, trVars, hostVars>>

\* InterfaceTracker tr("eth0", cfg)
CtorTracker ==
  /\ tr = Absent
  /\ tr' = NewTracker("eth0")
  /\ tr_call' = NoTrackerCall(tr')
  /\ UNCHANGED <<cfg, scenario, reorderVars, fsmVars, winVars, hostVars>>

\* TelemetryAgent agent(cfg)
CtorAgent ==
  /\ agent = Absent
  /\ agent' = NewAgent
  /\ agent_call' = NoAgentCall(agent')
  /\ UNCHANGED <<cfg, scenario, reorderVars, fsmVars, winVars, trVars, host>>

\* fsm.update(ts_now, score, confidence) on the constructed FSM
CtorFsmUpdate ==
  /\ fsm # Absent
  /\ \E score \in Scores, confidence \in Confidences :
       LET ts_now == IF fsm_call.valid THEN fsm_call.ts_now + 1 ELSE 0
           r == update(fsm, ts_now, score, confidence)
       IN /\ ts_now < MaxCtorCalls
          /\ fsm' = r.fsm
          /\ fsm_call' = [valid |-> TRUE, ts_now |-> ts_now, score |-> score,
                          confidence |-> confidence, pre |-> fsm, upd |-> r.upd]
  /\ UNCHANGED <<cfg, scenario, reorderVars, winVars, trVars, hostVars>>

\* tr.ingest(ts, m) on the constructed tracker
CtorTrackerIngest ==
  /\ tr # Absent
  /\ tr_call.n < MaxCtorCalls
  /\ \E m \in MetricsSet :
       /\ tr' = InterfaceTracker_ingest(tr, tr_call.n, m)
       /\ tr_call' = TrackerCalled("ingest", tr_call.n, m, tr')
  /\ UNCHANGED <<cfg, scenario, reorderVars, fsmVars, winVars, hostVars>>

\* agent.ingest("eth0", ts, m) on the constructed agent
CtorAgentIngest ==
  /\ agent # Absent
  /\ agent_call.n < MaxCtorCalls
  /\ \E m \in MetricsSet :
       /\ agent' = TelemetryAgent_ingest(agent, HostIface, agent_call.n, m)
       /\ agent_call' = AgentCalled("ingest", HostIface, agent_call.n, m, agent', <<>>)
  /\ UNCHANGED <<cfg, scenario, reorderVars, fsmVars, winVars, trVars, host>>

NextCtor ==
  \/ CtorFsm \/ CtorTracker \/ CtorAgent
  \/ CtorFsmUpdate \/ CtorTrackerIngest \/ CtorAgentIngest

SpecCtor == InitCtor /\ [][NextCtor]_vars

\* C22: constructing the agent, a tracker or the FSM with an invalid
\* configuration (healthy_exit >= healthy_enter, down_enter >= down_exit, a
\* negative weight, or rtt_max <= rtt_min) fails at construction instead of
\* yielding a usable object: under an invalid configuration none of the
\* three objects ever exists.
C22_InvalidConfigRejected ==
  InvalidConfig(cfg) => (fsm = Absent /\ tr = Absent /\ agent = Absent)

\* ------------------------------------------------------------------------
\* Specification SpecDrought: an InterfaceTracker that receives a sample in
\* each of the first seconds and then only note_time(t), one call per
\* second; SpecDroughtLive adds that the clock keeps ticking
\* ------------------------------------------------------------------------
\* ScoreConfig with the reference ewma_alpha and with ewma_alpha = 0, the
\* lower end of its range
DroughtScoreConfigs ==
  {[c EXCEPT !.ewma_alpha = a] : c \in ScoreConfigs, a \in {0, 250}}

InitDrought ==
  /\ IdleScenario
  /\ cfg \in [fsm : FsmConfigs, score : DroughtScoreConfigs]
  /\ tr = NewTracker("eth0") /\ tr_call = Absent
  /\ agent = Absent /\ agent_call = Absent
  /\ host = [pc |-> "feed", t |-> 0, silent |-> 0, left |-> "Degraded"]
  /\ IdleFsm /\ IdleWin /\ IdleReorder

\* a second with a sample: ingest(t, m)
DroughtFeed ==
  \E m \in MetricsSet :
    /\ host.pc = "feed" /\ host.t < MaxFeed
    /\ tr' = InterfaceTracker_drain_transition(
               InterfaceTracker_ingest(tr, host.t, m)).tr
    /\ host' = [host EXCEPT !.t = @ + 1, !.left = tr'.fsm_.status_]
    /\ UNCHANGED <<cfg, scenario, reorderVars, fsmVars, winVars, tr_call,
                   agent, agent_call>>

\* the caller's clock reaches the next second without a sample
DroughtClock ==
  /\ host.silent < MaxDrought
  /\ host' = [host EXCEPT !.pc = "silent", !.t = @ + 1, !.silent = @ + 1]

\* a second without a sample: note_time(t); the first one ends the feed
DroughtTick ==
  /\ DroughtClock
  /\ tr' = InterfaceTracker_drain_transition(
             InterfaceTracker_note_time(tr, host.t)).tr
  /\ UNCHANGED <<cfg, scenario, reorderVars, fsmVars, winVars, tr_call,
                 agent, agent_call>>

NextDrought == DroughtFeed \/ DroughtTick

SpecDrought == InitDrought /\ [][NextDrought]_vars

\* note_time keeps being called: every step of the clock is a DroughtTick
SpecDroughtLive == SpecDrought /\ WF_host(DroughtClock)

EwmaFollows == cfg.score.useEwma => cfg.score.ewma_alpha > 0

scenarioB_wifi_(t) ==
  IF t % 15 < 4 THEN Metrics(3500, 900, 100, 700) ELSE Metrics(350, 1100, 5, 60)

\* ScenarioGenerator::scenarioC_lte_(t): high throughput, loss 8..12 %,
\* jitter 60..78 ms
scenarioC_lte_(t) ==
  Metrics(950, 1600, 80 + ((t % 5) * 10), 600 + ((t % 7) * 30))

\* ScenarioGenerator::eth0_(t)
eth0_(t) == GoodMetrics

\* ScenarioGenerator::sample(iface, t) without missing or late samples, for
\* the interface and scenario of a run
sample(run, t) ==
  IF run.iface = "eth0" THEN eth0_(t)
  ELSE IF run.iface = "wifi0" THEN scenarioB_wifi_(t)
  ELSE scenarioC_lte_(t)

\* seconds of a CLI run and of the Scenario B test
CliTicks == 90
ScenarioBTicks == 180

\* the runs: eth0 and lte0 in Scenario C for 90 s, wifi0 in Scenario B for 180 s
ScenarioRuns ==
  { [sid |-> "C", iface |-> "eth0", ticks |-> CliTicks],
    [sid |-> "C", iface |-> "lte0", ticks |-> CliTicks],
    [sid |-> "B", iface |-> "wifi0", ticks |-> ScenarioBTicks] }

\* the reference FsmConfig: thresholds (0.72, 0.66, 0.35, 0.45), counts
\* (6, 6, 3, 5), min_dwell 5 s, force-down disabled; the confidence gate of
\* promotion is either absent or the 0.5 of the other configurations
ReferenceFsmConfigs ==
  { [ healthy_enter |-> 720, healthy_exit |-> 660,
      down_enter |-> 350, down_exit |-> 450,
      healthy_enter_N |-> 6, healthy_exit_N |-> 6,
      down_enter_N |-> 3, down_exit_N |-> 5,
      min_dwell_sec |-> 5,
      min_confidence_for_promotion |-> gate,
      force_down_if_confidence_below |-> 0 - ONE ] : gate \in {0, 500} }

\* the start of a run of the loop with a new tracker
NewScenario(run) ==
  [run |-> run, pc |-> "note_time", t |-> 0, pending |-> <<>>, evs |-> <<>>,
   raw_trans |-> <<>>]

InitScenario ==
  /\ scenario \in {NewScenario(run) : run \in ScenarioRuns}
  /\ cfg \in [fsm : ReferenceFsmConfigs, score : {DefaultScore}]
  /\ tr = NewTracker(scenario.run.iface) /\ tr_call = Absent
  /\ IdleFsm /\ IdleWin /\ IdleHost /\ IdleReorder

\* the tracker after a call, and the agent's queue with the event the call
\* left in the tracker's mailbox
ScenarioCollect(t, pc) ==
  LET d == InterfaceTracker_drain_transition(t)
  IN /\ tr' = d.tr
     /\ scenario' = [scenario EXCEPT !.pc = pc, !.pending = @ \o d.out]

\* agent.note_time(t)
ScenarioNoteTime ==
  /\ scenario.pc = "note_time"
  /\ ScenarioCollect(InterfaceTracker_note_time(tr, scenario.t), "ingest")
  /\ UNCHANGED <<cfg, tr_call, reorderVars, fsmVars, winVars, hostVars>>

\* agent.ingest(iface, g->ts, g->m)
ScenarioIngest ==
  /\ scenario.pc = "ingest"
  /\ ScenarioCollect(
       InterfaceTracker_ingest(tr, scenario.t, sample(scenario.run, scenario.t)),
       "drain")
  /\ UNCHANGED <<cfg, tr_call, reorderVars, fsmVars, winVars, hostVars>>

\* transitions += count_iface(agent.drain_transitions(), iface); ++t
ScenarioDrain ==
  /\ scenario.pc = "drain"
  /\ scenario' = [scenario EXCEPT
                    !.evs = @ \o scenario.pending, !.pending = <<>>,
                    !.t = @ + 1,
                    !.pc = IF scenario.t + 1 < scenario.run.ticks
                             THEN "note_time" ELSE "end"]
  /\ UNCHANGED <<cfg, trVars, reorderVars, fsmVars, winVars, hostVars>>

\* the second iteration of for (bool useEwma : {false, true}): a new agent
\* with cfg_for(true)
ScenarioNextRun ==
  /\ scenario.pc = "end" /\ ~cfg.score.useEwma
  /\ cfg' = [cfg EXCEPT !.score.useEwma = TRUE]
  /\ tr' = NewTracker(scenario.run.iface)
  /\ scenario' = [NewScenario(scenario.run) EXCEPT
                    !.raw_trans = <<Len(scenario.evs)>>]
  /\ UNCHANGED <<tr_call, reorderVars, fsmVars, winVars, hostVars>>

NextScenario ==
  ScenarioNoteTime \/ ScenarioIngest \/ ScenarioDrain \/ ScenarioNextRun

SpecScenario == InitScenario /\ [][NextScenario]_vars

\* ------------------------------------------------------------------------
\* Properties of the scenario runs (checked under SpecScenario)
\* ------------------------------------------------------------------------
\* the TransitionEvents of the interface in the current run so far
RunEvents == scenario.evs \o scenario.pending

\* C25: with the reference defaults, when eth0 receives the steady-good
\* sample {rtt=20, tp=180, loss=0.1, jit=3} at every second t = 0..89
\* (note_time(t) then ingest(t)), exactly one TransitionEvent is produced for
\* eth0, it is Degraded->Healthy, and eth0 is Healthy on every later tick.
C25_SteadyGoodPromotedOnce ==
  scenario.run.iface = "eth0" =>
    /\ Len(RunEvents) <= 1
    /\ scenario.pc = "end" => Len(RunEvents) = 1
    /\ RunEvents # <<>>
         => /\ RunEvents[1].from = "Degraded" /\ RunEvents[1].to = "Healthy"
            /\ tr.fsm_.status_ = "Healthy"
            /\ tr.last_snapshot_.status = "Healthy"
            /\ scenario.t >= RunEvents[1].ts

\* the second run (EWMA) of eth0 has ended after 90 seconds with its one
\* promotion, made before the window was full, and the first run had one too
C25_Witness ==
  /\ scenario.run.iface = "eth0" /\ scenario.pc = "end" /\ scenario.t = CliTicks
  /\ cfg.score.useEwma /\ scenario.raw_trans = <<1>>
  /\ Len(scenario.evs) = 1 /\ scenario.evs[1].to = "Healthy"
  /\ scenario.evs[1].ts < ReferenceWindow
  /\ RollingWindow_summary(tr.window_).count = ReferenceWindow

\* C26: in Scenario C with the reference defaults, lte0 (throughput 160
\* Mbps, rtt 95 ms, loss 8..12 %, jitter 60..78 ms sustained for 90
\* one-second ticks) has status Degraded or Down, not Healthy, after the
\* last tick.
C26_MisleadingThroughputNotHealthy ==
  (scenario.run.iface = "lte0" /\ scenario.pc = "end")
    => tr.fsm_.status_ \in {"Degraded", "Down"}

\* C27: in Scenario B (wifi0: a 4-second spike every 15 s, otherwise good)
\* run for 180 one-second ticks with the test configuration, the number of
\* wifi0 TransitionEvents with use_ewma = true is at most 6 and is not
\* greater than the number with use_ewma = false.
C27_EwmaFlapsNoMoreThanRaw ==
  (scenario.run.iface = "wifi0" /\ scenario.pc = "end" /\ cfg.score.useEwma)
    => /\ Len(scenario.evs) <= 6
       /\ Len(scenario.evs) <= scenario.raw_trans[1]

\* ------------------------------------------------------------------------
\* Specification SpecReorder: a set S of samples is ingested into an empty
\* RollingWindow a in some order, then into an empty RollingWindow b in some
\* order
\* ------------------------------------------------------------------------
Samples == [ts : HistTs, m : MetricsSet]

SampleSets == {S \in SUBSET Samples : Cardinality(S) <= MaxSamples}

InitReorder ==
  /\ IdleScenario
  /\ cfg \in [fsm : {CHOOSE c \in FsmConfigs : TRUE}, score : {DefaultScore}]
  /\ IdleFsm /\ IdleWin /\ IdleTracker /\ IdleHost
  /\ \E S \in SampleSets :
       reorder = NewReorder(S)

ReorderIngestA ==
  \E s \in reorder.todo_a :
    LET r == RollingWindow_ingest(reorder.a, s.ts, s.m)
    IN /\ reorder' = [reorder EXCEPT !.a = r.win, !.todo_a = @ \ {s},
                                     !.order_a = Append(@, s),
                                     !.all_true = @ /\ r.ret]
       /\ UNCHANGED <<cfg, scenario, fsmVars, winVars, trVars, hostVars>>

ReorderIngestB ==
  /\ reorder.todo_a = {}
  /\ \E s \in reorder.todo_b :
       LET r == RollingWindow_ingest(reorder.b, s.ts, s.m)
       IN /\ reorder' = [reorder EXCEPT !.b = r.win, !.todo_b = @ \ {s},
                                        !.order_b = Append(@, s),
                                        !.all_true = @ /\ r.ret]
          /\ UNCHANGED <<cfg, scenario, fsmVars, winVars, trVars, hostVars>>

NextReorder == ReorderIngestA \/ ReorderIngestB

SpecReorder == InitReorder /\ [][NextReorder]_vars

\* ------------------------------------------------------------------------
\* Properties of RollingWindow under reordering (checked under SpecReorder)
\* ------------------------------------------------------------------------
\* both windows have ingested all of S
ReorderDone == reorder.todo_a = {} /\ reorder.todo_b = {}

\* every timestamp of S lies in the window induced by max_ts(S)
InWindowOfMax(S) ==
  \A s \in S, t \in S : s.ts >= t.ts - (kWindow - 1)

\* no two samples of S carry the same timestamp
DistinctTs(S) == \A s \in S, t \in S : s.ts = t.ts => s = t

\* C11 as stated: for a set S of samples whose timestamps all lie within
\* the window induced by max_ts(S), ingesting S into an empty RollingWindow
\* in any two orders yields identical summaries, and every ingest returns
\* true.
C11_AnyOrderSameSummary ==
  (ReorderDone /\ InWindowOfMax(reorder.S))
    => /\ RollingWindow_summary(reorder.a) = RollingWindow_summary(reorder.b)
       /\ reorder.all_true

\* C11 amended: the same, for a set S whose samples have pairwise distinct
\* timestamps (two samples of one timestamp are a correction, and the later
\* ingested one wins).
C11_DistinctTsAnyOrderSameSummary ==
  (ReorderDone /\ InWindowOfMax(reorder.S) /\ DistinctTs(reorder.S))
    => /\ RollingWindow_summary(reorder.a) = RollingWindow_summary(reorder.b)
       /\ reorder.all_true

\* a set of distinct timestamps spanning the whole window, with both kinds
\* of sample, was ingested in two different orders, the first of them not
\* starting with the newest timestamp
C11_Witness ==
  /\ ReorderDone /\ InWindowOfMax(reorder.S) /\ DistinctTs(reorder.S)
  /\ Cardinality(reorder.S) >= 3
  /\ \E s \in reorder.S, t \in reorder.S :
       s.ts - t.ts = kWindow - 1 /\ s.m # t.m
  /\ reorder.order_a # reorder.order_b
  /\ \E t \in reorder.S : t.ts > reorder.order_a[1].ts
  /\ RollingWindow_summary(reorder.a).count = Cardinality(reorder.S)

====
